---------------------------- MODULE Spec2Model ----------------------------
(***************************************************************************)
(* Model of the CSV/XLSX analyser (src/app.js, src/unnamed/part_000).      *)
(*                                                                         *)
(* A JavaScript string is a sequence of one-character strings, so that     *)
(* splitting, trimming, lower-casing, joining and substring search are     *)
(* computed character by character as the code computes them.              *)
(***************************************************************************)
EXTENDS Integers, Sequences, FiniteSets, TLC

VARIABLES
  mode,             \* state.mode: "analyse" | "comparaison"
  analyse,          \* state.analyse: Null or the dataset [headers, rows]
  comparaison,      \* state.comparaison: [ref, cmp, keywords]
  selectedColumns,  \* state.selectedColumns: set of header strings
  caseSensitive,    \* state.caseSensitive
  filters,          \* state.filters: [keywords]
  status,           \* the status message shown: "", "importing", "imported",
                    \* "reset" (all columns re-activated) or "error"
  thead,            \* the headers whose checkboxes the table head shows
  boxes,            \* for each checkbox of the head, whether it is checked
  build,            \* the script the page runs: src/app.js or
                    \* src/unnamed/part_000
  pending,          \* the imports whose file is being read: [role, file]
  imports,          \* the number of change events of the file inputs so far
  lastSelected,     \* per role, Null or the file selected last for it and the
                    \* fate of its import: "reading", "imported" or "failed"
  call,             \* the call being made: [fn, ...arguments]
  ret,              \* its return value, meaningful once pc = "done"
  pc                \* "call" before the function has run, "done" after

vars ==
  <<mode, analyse, comparaison, selectedColumns, caseSensitive, filters,
    status, thead, boxes, build, pending, imports, lastSelected, call, ret, pc>>

stateVars ==
  <<mode, analyse, comparaison, selectedColumns, caseSensitive, filters,
    status, thead, boxes, build, pending, imports, lastSelected>>

-----------------------------------------------------------------------------
(* Strings                                                                 *)

Min(a, b) == IF a < b THEN a ELSE b

\* Cell values: a string cell, and JavaScript's null / undefined.
Str(s) == [str |-> s]
Null == [null |-> TRUE]
IsNull(v) == "null" \in DOMAIN v

\* A number cell (an integer) of a spreadsheet.
Num(n) == [num |-> n]
IsNum(v) == "num" \in DOMAIN v

\* The decimal digits of a non-negative integer.
RECURSIVE decimal(_)
decimal(n) ==
  LET digit == <<"0", "1", "2", "3", "4", "5", "6", "7", "8", "9">>[(n % 10) + 1]
  IN  IF n < 10 THEN <<digit>> ELSE Append(decimal(n \div 10), digit)

\* A function inherited from Object.prototype, known by its name.
Fn(name) == [fn |-> name]
IsFn(v) == "fn" \in DOMAIN v

\* Object.prototype itself, the value of the inherited property __proto__.
ObjectPrototype == [object |-> "Object.prototype"]
IsObject(v) == "object" \in DOMAIN v

\* String(value) of a value that is neither null nor undefined: the decimal
\* form of a number, the source text of a built-in function, the tag of an
\* object, a string itself.
String(v) ==
  IF IsNum(v)
  THEN IF v.num < 0 THEN <<"-">> \o decimal(0 - v.num) ELSE decimal(v.num)
  ELSE IF IsFn(v)
       THEN <<"f", "u", "n", "c", "t", "i", "o", "n", " ">> \o v.fn
            \o <<"(", ")", " ", "{", " ", "[", "n", "a", "t", "i", "v", "e", " ", "c", "o", "d", "e", "]", " ", "}">>
  ELSE IF IsObject(v)
       THEN <<"[", "o", "b", "j", "e", "c", "t", " ", "O", "b", "j", "e", "c", "t", "]">>
  ELSE v.str

\* A character of a string is a string of the module: a character of U+0000
\* to U+007F stands for itself (the grave accent apart), and every other
\* character of the Basic Multilingual Plane, like the grave accent, is
\* written by its code point, "U+00C9" for the capital E with acute accent,
\* "U+0060" for the grave accent.  The characters are those Unicode 17 assigns
\* outside the surrogates U+D800 to U+DFFF.

\* The letters toLowerCase changes into one other letter.
UpperLetters ==
  <<
    "A", "B", "C", "D", "E", "F", "G", "H", "I", "J", "K", "L", "M", "N", "O",
    "P", "Q", "R", "S", "T", "U", "V", "W", "X", "Y", "Z", "U+00C0", "U+00C1",
    "U+00C2", "U+00C3", "U+00C4", "U+00C5", "U+00C6", "U+00C7", "U+00C8",
    "U+00C9", "U+00CA", "U+00CB", "U+00CC", "U+00CD", "U+00CE", "U+00CF",
    "U+00D0", "U+00D1", "U+00D2", "U+00D3", "U+00D4", "U+00D5", "U+00D6",
    "U+00D8", "U+00D9", "U+00DA", "U+00DB", "U+00DC", "U+00DD", "U+00DE",
    "U+0100", "U+0102", "U+0104", "U+0106", "U+0108", "U+010A", "U+010C",
    "U+010E", "U+0110", "U+0112", "U+0114", "U+0116", "U+0118", "U+011A",
    "U+011C", "U+011E", "U+0120", "U+0122", "U+0124", "U+0126", "U+0128",
    "U+012A", "U+012C", "U+012E", "U+0132", "U+0134", "U+0136", "U+0139",
    "U+013B", "U+013D", "U+013F", "U+0141", "U+0143", "U+0145", "U+0147",
    "U+014A", "U+014C", "U+014E", "U+0150", "U+0152", "U+0154", "U+0156",
    "U+0158", "U+015A", "U+015C", "U+015E", "U+0160", "U+0162", "U+0164",
    "U+0166", "U+0168", "U+016A", "U+016C", "U+016E", "U+0170", "U+0172",
    "U+0174", "U+0176", "U+0178", "U+0179", "U+017B", "U+017D", "U+0181",
    "U+0182", "U+0184", "U+0186", "U+0187", "U+0189", "U+018A", "U+018B",
    "U+018E", "U+018F", "U+0190", "U+0191", "U+0193", "U+0194", "U+0196",
    "U+0197", "U+0198", "U+019C", "U+019D", "U+019F", "U+01A0", "U+01A2",
    "U+01A4", "U+01A6", "U+01A7", "U+01A9", "U+01AC", "U+01AE", "U+01AF",
    "U+01B1", "U+01B2", "U+01B3", "U+01B5", "U+01B7", "U+01B8", "U+01BC",
    "U+01C4", "U+01C5", "U+01C7", "U+01C8", "U+01CA", "U+01CB", "U+01CD",
    "U+01CF", "U+01D1", "U+01D3", "U+01D5", "U+01D7", "U+01D9", "U+01DB",
    "U+01DE", "U+01E0", "U+01E2", "U+01E4", "U+01E6", "U+01E8", "U+01EA",
    "U+01EC", "U+01EE", "U+01F1", "U+01F2", "U+01F4", "U+01F6", "U+01F7",
    "U+01F8", "U+01FA", "U+01FC", "U+01FE", "U+0200", "U+0202", "U+0204",
    "U+0206", "U+0208", "U+020A", "U+020C", "U+020E", "U+0210", "U+0212",
    "U+0214", "U+0216", "U+0218", "U+021A", "U+021C", "U+021E", "U+0220",
    "U+0222", "U+0224", "U+0226", "U+0228", "U+022A", "U+022C", "U+022E",
    "U+0230", "U+0232", "U+023A", "U+023B", "U+023D", "U+023E", "U+0241",
    "U+0243", "U+0244", "U+0245", "U+0246", "U+0248", "U+024A", "U+024C",
    "U+024E", "U+0370", "U+0372", "U+0376", "U+037F", "U+0386", "U+0388",
    "U+0389", "U+038A", "U+038C", "U+038E", "U+038F", "U+0391", "U+0392",
    "U+0393", "U+0394", "U+0395", "U+0396", "U+0397", "U+0398", "U+0399",
    "U+039A", "U+039B", "U+039C", "U+039D", "U+039E", "U+039F", "U+03A0",
    "U+03A1", "U+03A3", "U+03A4", "U+03A5", "U+03A6", "U+03A7", "U+03A8",
    "U+03A9", "U+03AA", "U+03AB", "U+03CF", "U+03D8", "U+03DA", "U+03DC",
    "U+03DE", "U+03E0", "U+03E2", "U+03E4", "U+03E6", "U+03E8", "U+03EA",
    "U+03EC", "U+03EE", "U+03F4", "U+03F7", "U+03F9", "U+03FA", "U+03FD",
    "U+03FE", "U+03FF", "U+0400", "U+0401", "U+0402", "U+0403", "U+0404",
    "U+0405", "U+0406", "U+0407", "U+0408", "U+0409", "U+040A", "U+040B",
    "U+040C", "U+040D", "U+040E", "U+040F", "U+0410", "U+0411", "U+0412",
    "U+0413", "U+0414", "U+0415", "U+0416", "U+0417", "U+0418", "U+0419",
    "U+041A", "U+041B", "U+041C", "U+041D", "U+041E", "U+041F", "U+0420",
    "U+0421", "U+0422", "U+0423", "U+0424", "U+0425", "U+0426", "U+0427",
    "U+0428", "U+0429", "U+042A", "U+042B", "U+042C", "U+042D", "U+042E",
    "U+042F", "U+0460", "U+0462", "U+0464", "U+0466", "U+0468", "U+046A",
    "U+046C", "U+046E", "U+0470", "U+0472", "U+0474", "U+0476", "U+0478",
    "U+047A", "U+047C", "U+047E", "U+0480", "U+048A", "U+048C", "U+048E",
    "U+0490", "U+0492", "U+0494", "U+0496", "U+0498", "U+049A", "U+049C",
    "U+049E", "U+04A0", "U+04A2", "U+04A4", "U+04A6", "U+04A8", "U+04AA",
    "U+04AC", "U+04AE", "U+04B0", "U+04B2", "U+04B4", "U+04B6", "U+04B8",
    "U+04BA", "U+04BC", "U+04BE", "U+04C0", "U+04C1", "U+04C3", "U+04C5",
    "U+04C7", "U+04C9", "U+04CB", "U+04CD", "U+04D0", "U+04D2", "U+04D4",
    "U+04D6", "U+04D8", "U+04DA", "U+04DC", "U+04DE", "U+04E0", "U+04E2",
    "U+04E4", "U+04E6", "U+04E8", "U+04EA", "U+04EC", "U+04EE", "U+04F0",
    "U+04F2", "U+04F4", "U+04F6", "U+04F8", "U+04FA", "U+04FC", "U+04FE",
    "U+0500", "U+0502", "U+0504", "U+0506", "U+0508", "U+050A", "U+050C",
    "U+050E", "U+0510", "U+0512", "U+0514", "U+0516", "U+0518", "U+051A",
    "U+051C", "U+051E", "U+0520", "U+0522", "U+0524", "U+0526", "U+0528",
    "U+052A", "U+052C", "U+052E", "U+0531", "U+0532", "U+0533", "U+0534",
    "U+0535", "U+0536", "U+0537", "U+0538", "U+0539", "U+053A", "U+053B",
    "U+053C", "U+053D", "U+053E", "U+053F", "U+0540", "U+0541", "U+0542",
    "U+0543", "U+0544", "U+0545", "U+0546", "U+0547", "U+0548", "U+0549",
    "U+054A", "U+054B", "U+054C", "U+054D", "U+054E", "U+054F", "U+0550",
    "U+0551", "U+0552", "U+0553", "U+0554", "U+0555", "U+0556", "U+10A0",
    "U+10A1", "U+10A2", "U+10A3", "U+10A4", "U+10A5", "U+10A6", "U+10A7",
    "U+10A8", "U+10A9", "U+10AA", "U+10AB", "U+10AC", "U+10AD", "U+10AE",
    "U+10AF", "U+10B0", "U+10B1", "U+10B2", "U+10B3", "U+10B4", "U+10B5",
    "U+10B6", "U+10B7", "U+10B8", "U+10B9", "U+10BA", "U+10BB", "U+10BC",
    "U+10BD", "U+10BE", "U+10BF", "U+10C0", "U+10C1", "U+10C2", "U+10C3",
    "U+10C4", "U+10C5", "U+10C7", "U+10CD", "U+13A0", "U+13A1", "U+13A2",
    "U+13A3", "U+13A4", "U+13A5", "U+13A6", "U+13A7", "U+13A8", "U+13A9",
    "U+13AA", "U+13AB", "U+13AC", "U+13AD", "U+13AE", "U+13AF", "U+13B0",
    "U+13B1", "U+13B2", "U+13B3", "U+13B4", "U+13B5", "U+13B6", "U+13B7",
    "U+13B8", "U+13B9", "U+13BA", "U+13BB", "U+13BC", "U+13BD", "U+13BE",
    "U+13BF", "U+13C0", "U+13C1", "U+13C2", "U+13C3", "U+13C4", "U+13C5",
    "U+13C6", "U+13C7", "U+13C8", "U+13C9", "U+13CA", "U+13CB", "U+13CC",
    "U+13CD", "U+13CE", "U+13CF", "U+13D0", "U+13D1", "U+13D2", "U+13D3",
    "U+13D4", "U+13D5", "U+13D6", "U+13D7", "U+13D8", "U+13D9", "U+13DA",
    "U+13DB", "U+13DC", "U+13DD", "U+13DE", "U+13DF", "U+13E0", "U+13E1",
    "U+13E2", "U+13E3", "U+13E4", "U+13E5", "U+13E6", "U+13E7", "U+13E8",
    "U+13E9", "U+13EA", "U+13EB", "U+13EC", "U+13ED", "U+13EE", "U+13EF",
    "U+13F0", "U+13F1", "U+13F2", "U+13F3", "U+13F4", "U+13F5", "U+1C89",
    "U+1C90", "U+1C91", "U+1C92", "U+1C93", "U+1C94", "U+1C95", "U+1C96",
    "U+1C97", "U+1C98", "U+1C99", "U+1C9A", "U+1C9B", "U+1C9C", "U+1C9D",
    "U+1C9E", "U+1C9F", "U+1CA0", "U+1CA1", "U+1CA2", "U+1CA3", "U+1CA4",
    "U+1CA5", "U+1CA6", "U+1CA7", "U+1CA8", "U+1CA9", "U+1CAA", "U+1CAB",
    "U+1CAC", "U+1CAD", "U+1CAE", "U+1CAF", "U+1CB0", "U+1CB1", "U+1CB2",
    "U+1CB3", "U+1CB4", "U+1CB5", "U+1CB6", "U+1CB7", "U+1CB8", "U+1CB9",
    "U+1CBA", "U+1CBD", "U+1CBE", "U+1CBF", "U+1E00", "U+1E02", "U+1E04",
    "U+1E06", "U+1E08", "U+1E0A", "U+1E0C", "U+1E0E", "U+1E10", "U+1E12",
    "U+1E14", "U+1E16", "U+1E18", "U+1E1A", "U+1E1C", "U+1E1E", "U+1E20",
    "U+1E22", "U+1E24", "U+1E26", "U+1E28", "U+1E2A", "U+1E2C", "U+1E2E",
    "U+1E30", "U+1E32", "U+1E34", "U+1E36", "U+1E38", "U+1E3A", "U+1E3C",
    "U+1E3E", "U+1E40", "U+1E42", "U+1E44", "U+1E46", "U+1E48", "U+1E4A",
    "U+1E4C", "U+1E4E", "U+1E50", "U+1E52", "U+1E54", "U+1E56", "U+1E58",
    "U+1E5A", "U+1E5C", "U+1E5E", "U+1E60", "U+1E62", "U+1E64", "U+1E66",
    "U+1E68", "U+1E6A", "U+1E6C", "U+1E6E", "U+1E70", "U+1E72", "U+1E74",
    "U+1E76", "U+1E78", "U+1E7A", "U+1E7C", "U+1E7E", "U+1E80", "U+1E82",
    "U+1E84", "U+1E86", "U+1E88", "U+1E8A", "U+1E8C", "U+1E8E", "U+1E90",
    "U+1E92", "U+1E94", "U+1E9E", "U+1EA0", "U+1EA2", "U+1EA4", "U+1EA6",
    "U+1EA8", "U+1EAA", "U+1EAC", "U+1EAE", "U+1EB0", "U+1EB2", "U+1EB4",
    "U+1EB6", "U+1EB8", "U+1EBA", "U+1EBC", "U+1EBE", "U+1EC0", "U+1EC2",
    "U+1EC4", "U+1EC6", "U+1EC8", "U+1ECA", "U+1ECC", "U+1ECE", "U+1ED0",
    "U+1ED2", "U+1ED4", "U+1ED6", "U+1ED8", "U+1EDA", "U+1EDC", "U+1EDE",
    "U+1EE0", "U+1EE2", "U+1EE4", "U+1EE6", "U+1EE8", "U+1EEA", "U+1EEC",
    "U+1EEE", "U+1EF0", "U+1EF2", "U+1EF4", "U+1EF6", "U+1EF8", "U+1EFA",
    "U+1EFC", "U+1EFE", "U+1F08", "U+1F09", "U+1F0A", "U+1F0B", "U+1F0C",
    "U+1F0D", "U+1F0E", "U+1F0F", "U+1F18", "U+1F19", "U+1F1A", "U+1F1B",
    "U+1F1C", "U+1F1D", "U+1F28", "U+1F29", "U+1F2A", "U+1F2B", "U+1F2C",
    "U+1F2D", "U+1F2E", "U+1F2F", "U+1F38", "U+1F39", "U+1F3A", "U+1F3B",
    "U+1F3C", "U+1F3D", "U+1F3E", "U+1F3F", "U+1F48", "U+1F49", "U+1F4A",
    "U+1F4B", "U+1F4C", "U+1F4D", "U+1F59", "U+1F5B", "U+1F5D", "U+1F5F",
    "U+1F68", "U+1F69", "U+1F6A", "U+1F6B", "U+1F6C", "U+1F6D", "U+1F6E",
    "U+1F6F", "U+1F88", "U+1F89", "U+1F8A", "U+1F8B", "U+1F8C", "U+1F8D",
    "U+1F8E", "U+1F8F", "U+1F98", "U+1F99", "U+1F9A", "U+1F9B", "U+1F9C",
    "U+1F9D", "U+1F9E", "U+1F9F", "U+1FA8", "U+1FA9", "U+1FAA", "U+1FAB",
    "U+1FAC", "U+1FAD", "U+1FAE", "U+1FAF", "U+1FB8", "U+1FB9", "U+1FBA",
    "U+1FBB", "U+1FBC", "U+1FC8", "U+1FC9", "U+1FCA", "U+1FCB", "U+1FCC",
    "U+1FD8", "U+1FD9", "U+1FDA", "U+1FDB", "U+1FE8", "U+1FE9", "U+1FEA",
    "U+1FEB", "U+1FEC", "U+1FF8", "U+1FF9", "U+1FFA", "U+1FFB", "U+1FFC",
    "U+2126", "U+212A", "U+212B", "U+2132", "U+2160", "U+2161", "U+2162",
    "U+2163", "U+2164", "U+2165", "U+2166", "U+2167", "U+2168", "U+2169",
    "U+216A", "U+216B", "U+216C", "U+216D", "U+216E", "U+216F", "U+2183",
    "U+24B6", "U+24B7", "U+24B8", "U+24B9", "U+24BA", "U+24BB", "U+24BC",
    "U+24BD", "U+24BE", "U+24BF", "U+24C0", "U+24C1", "U+24C2", "U+24C3",
    "U+24C4", "U+24C5", "U+24C6", "U+24C7", "U+24C8", "U+24C9", "U+24CA",
    "U+24CB", "U+24CC", "U+24CD", "U+24CE", "U+24CF", "U+2C00", "U+2C01",
    "U+2C02", "U+2C03", "U+2C04", "U+2C05", "U+2C06", "U+2C07", "U+2C08",
    "U+2C09", "U+2C0A", "U+2C0B", "U+2C0C", "U+2C0D", "U+2C0E", "U+2C0F",
    "U+2C10", "U+2C11", "U+2C12", "U+2C13", "U+2C14", "U+2C15", "U+2C16",
    "U+2C17", "U+2C18", "U+2C19", "U+2C1A", "U+2C1B", "U+2C1C", "U+2C1D",
    "U+2C1E", "U+2C1F", "U+2C20", "U+2C21", "U+2C22", "U+2C23", "U+2C24",
    "U+2C25", "U+2C26", "U+2C27", "U+2C28", "U+2C29", "U+2C2A", "U+2C2B",
    "U+2C2C", "U+2C2D", "U+2C2E", "U+2C2F", "U+2C60", "U+2C62", "U+2C63",
    "U+2C64", "U+2C67", "U+2C69", "U+2C6B", "U+2C6D", "U+2C6E", "U+2C6F",
    "U+2C70", "U+2C72", "U+2C75", "U+2C7E", "U+2C7F", "U+2C80", "U+2C82",
    "U+2C84", "U+2C86", "U+2C88", "U+2C8A", "U+2C8C", "U+2C8E", "U+2C90",
    "U+2C92", "U+2C94", "U+2C96", "U+2C98", "U+2C9A", "U+2C9C", "U+2C9E",
    "U+2CA0", "U+2CA2", "U+2CA4", "U+2CA6", "U+2CA8", "U+2CAA", "U+2CAC",
    "U+2CAE", "U+2CB0", "U+2CB2", "U+2CB4", "U+2CB6", "U+2CB8", "U+2CBA",
    "U+2CBC", "U+2CBE", "U+2CC0", "U+2CC2", "U+2CC4", "U+2CC6", "U+2CC8",
    "U+2CCA", "U+2CCC", "U+2CCE", "U+2CD0", "U+2CD2", "U+2CD4", "U+2CD6",
    "U+2CD8", "U+2CDA", "U+2CDC", "U+2CDE", "U+2CE0", "U+2CE2", "U+2CEB",
    "U+2CED", "U+2CF2", "U+A640", "U+A642", "U+A644", "U+A646", "U+A648",
    "U+A64A", "U+A64C", "U+A64E", "U+A650", "U+A652", "U+A654", "U+A656",
    "U+A658", "U+A65A", "U+A65C", "U+A65E", "U+A660", "U+A662", "U+A664",
    "U+A666", "U+A668", "U+A66A", "U+A66C", "U+A680", "U+A682", "U+A684",
    "U+A686", "U+A688", "U+A68A", "U+A68C", "U+A68E", "U+A690", "U+A692",
    "U+A694", "U+A696", "U+A698", "U+A69A", "U+A722", "U+A724", "U+A726",
    "U+A728", "U+A72A", "U+A72C", "U+A72E", "U+A732", "U+A734", "U+A736",
    "U+A738", "U+A73A", "U+A73C", "U+A73E", "U+A740", "U+A742", "U+A744",
    "U+A746", "U+A748", "U+A74A", "U+A74C", "U+A74E", "U+A750", "U+A752",
    "U+A754", "U+A756", "U+A758", "U+A75A", "U+A75C", "U+A75E", "U+A760",
    "U+A762", "U+A764", "U+A766", "U+A768", "U+A76A", "U+A76C", "U+A76E",
    "U+A779", "U+A77B", "U+A77D", "U+A77E", "U+A780", "U+A782", "U+A784",
    "U+A786", "U+A78B", "U+A78D", "U+A790", "U+A792", "U+A796", "U+A798",
    "U+A79A", "U+A79C", "U+A79E", "U+A7A0", "U+A7A2", "U+A7A4", "U+A7A6",
    "U+A7A8", "U+A7AA", "U+A7AB", "U+A7AC", "U+A7AD", "U+A7AE", "U+A7B0",
    "U+A7B1", "U+A7B2", "U+A7B3", "U+A7B4", "U+A7B6", "U+A7B8", "U+A7BA",
    "U+A7BC", "U+A7BE", "U+A7C0", "U+A7C2", "U+A7C4", "U+A7C5", "U+A7C6",
    "U+A7C7", "U+A7C9", "U+A7CB", "U+A7CC", "U+A7CE", "U+A7D0", "U+A7D2",
    "U+A7D4", "U+A7D6", "U+A7D8", "U+A7DA", "U+A7DC", "U+A7F5", "U+FF21",
    "U+FF22", "U+FF23", "U+FF24", "U+FF25", "U+FF26", "U+FF27", "U+FF28",
    "U+FF29", "U+FF2A", "U+FF2B", "U+FF2C", "U+FF2D", "U+FF2E", "U+FF2F",
    "U+FF30", "U+FF31", "U+FF32", "U+FF33", "U+FF34", "U+FF35", "U+FF36",
    "U+FF37", "U+FF38", "U+FF39", "U+FF3A" >>

\* Their lower-case forms, position by position.
LowerLetters ==
  <<
    "a", "b", "c", "d", "e", "f", "g", "h", "i", "j", "k", "l", "m", "n", "o",
    "p", "q", "r", "s", "t", "u", "v", "w", "x", "y", "z", "U+00E0", "U+00E1",
    "U+00E2", "U+00E3", "U+00E4", "U+00E5", "U+00E6", "U+00E7", "U+00E8",
    "U+00E9", "U+00EA", "U+00EB", "U+00EC", "U+00ED", "U+00EE", "U+00EF",
    "U+00F0", "U+00F1", "U+00F2", "U+00F3", "U+00F4", "U+00F5", "U+00F6",
    "U+00F8", "U+00F9", "U+00FA", "U+00FB", "U+00FC", "U+00FD", "U+00FE",
    "U+0101", "U+0103", "U+0105", "U+0107", "U+0109", "U+010B", "U+010D",
    "U+010F", "U+0111", "U+0113", "U+0115", "U+0117", "U+0119", "U+011B",
    "U+011D", "U+011F", "U+0121", "U+0123", "U+0125", "U+0127", "U+0129",
    "U+012B", "U+012D", "U+012F", "U+0133", "U+0135", "U+0137", "U+013A",
    "U+013C", "U+013E", "U+0140", "U+0142", "U+0144", "U+0146", "U+0148",
    "U+014B", "U+014D", "U+014F", "U+0151", "U+0153", "U+0155", "U+0157",
    "U+0159", "U+015B", "U+015D", "U+015F", "U+0161", "U+0163", "U+0165",
    "U+0167", "U+0169", "U+016B", "U+016D", "U+016F", "U+0171", "U+0173",
    "U+0175", "U+0177", "U+00FF", "U+017A", "U+017C", "U+017E", "U+0253",
    "U+0183", "U+0185", "U+0254", "U+0188", "U+0256", "U+0257", "U+018C",
    "U+01DD", "U+0259", "U+025B", "U+0192", "U+0260", "U+0263", "U+0269",
    "U+0268", "U+0199", "U+026F", "U+0272", "U+0275", "U+01A1", "U+01A3",
    "U+01A5", "U+0280", "U+01A8", "U+0283", "U+01AD", "U+0288", "U+01B0",
    "U+028A", "U+028B", "U+01B4", "U+01B6", "U+0292", "U+01B9", "U+01BD",
    "U+01C6", "U+01C6", "U+01C9", "U+01C9", "U+01CC", "U+01CC", "U+01CE",
    "U+01D0", "U+01D2", "U+01D4", "U+01D6", "U+01D8", "U+01DA", "U+01DC",
    "U+01DF", "U+01E1", "U+01E3", "U+01E5", "U+01E7", "U+01E9", "U+01EB",
    "U+01ED", "U+01EF", "U+01F3", "U+01F3", "U+01F5", "U+0195", "U+01BF",
    "U+01F9", "U+01FB", "U+01FD", "U+01FF", "U+0201", "U+0203", "U+0205",
    "U+0207", "U+0209", "U+020B", "U+020D", "U+020F", "U+0211", "U+0213",
    "U+0215", "U+0217", "U+0219", "U+021B", "U+021D", "U+021F", "U+019E",
    "U+0223", "U+0225", "U+0227", "U+0229", "U+022B", "U+022D", "U+022F",
    "U+0231", "U+0233", "U+2C65", "U+023C", "U+019A", "U+2C66", "U+0242",
    "U+0180", "U+0289", "U+028C", "U+0247", "U+0249", "U+024B", "U+024D",
    "U+024F", "U+0371", "U+0373", "U+0377", "U+03F3", "U+03AC", "U+03AD",
    "U+03AE", "U+03AF", "U+03CC", "U+03CD", "U+03CE", "U+03B1", "U+03B2",
    "U+03B3", "U+03B4", "U+03B5", "U+03B6", "U+03B7", "U+03B8", "U+03B9",
    "U+03BA", "U+03BB", "U+03BC", "U+03BD", "U+03BE", "U+03BF", "U+03C0",
    "U+03C1", "U+03C3", "U+03C4", "U+03C5", "U+03C6", "U+03C7", "U+03C8",
    "U+03C9", "U+03CA", "U+03CB", "U+03D7", "U+03D9", "U+03DB", "U+03DD",
    "U+03DF", "U+03E1", "U+03E3", "U+03E5", "U+03E7", "U+03E9", "U+03EB",
    "U+03ED", "U+03EF", "U+03B8", "U+03F8", "U+03F2", "U+03FB", "U+037B",
    "U+037C", "U+037D", "U+0450", "U+0451", "U+0452", "U+0453", "U+0454",
    "U+0455", "U+0456", "U+0457", "U+0458", "U+0459", "U+045A", "U+045B",
    "U+045C", "U+045D", "U+045E", "U+045F", "U+0430", "U+0431", "U+0432",
    "U+0433", "U+0434", "U+0435", "U+0436", "U+0437", "U+0438", "U+0439",
    "U+043A", "U+043B", "U+043C", "U+043D", "U+043E", "U+043F", "U+0440",
    "U+0441", "U+0442", "U+0443", "U+0444", "U+0445", "U+0446", "U+0447",
    "U+0448", "U+0449", "U+044A", "U+044B", "U+044C", "U+044D", "U+044E",
    "U+044F", "U+0461", "U+0463", "U+0465", "U+0467", "U+0469", "U+046B",
    "U+046D", "U+046F", "U+0471", "U+0473", "U+0475", "U+0477", "U+0479",
    "U+047B", "U+047D", "U+047F", "U+0481", "U+048B", "U+048D", "U+048F",
    "U+0491", "U+0493", "U+0495", "U+0497", "U+0499", "U+049B", "U+049D",
    "U+049F", "U+04A1", "U+04A3", "U+04A5", "U+04A7", "U+04A9", "U+04AB",
    "U+04AD", "U+04AF", "U+04B1", "U+04B3", "U+04B5", "U+04B7", "U+04B9",
    "U+04BB", "U+04BD", "U+04BF", "U+04CF", "U+04C2", "U+04C4", "U+04C6",
    "U+04C8", "U+04CA", "U+04CC", "U+04CE", "U+04D1", "U+04D3", "U+04D5",
    "U+04D7", "U+04D9", "U+04DB", "U+04DD", "U+04DF", "U+04E1", "U+04E3",
    "U+04E5", "U+04E7", "U+04E9", "U+04EB", "U+04ED", "U+04EF", "U+04F1",
    "U+04F3", "U+04F5", "U+04F7", "U+04F9", "U+04FB", "U+04FD", "U+04FF",
    "U+0501", "U+0503", "U+0505", "U+0507", "U+0509", "U+050B", "U+050D",
    "U+050F", "U+0511", "U+0513", "U+0515", "U+0517", "U+0519", "U+051B",
    "U+051D", "U+051F", "U+0521", "U+0523", "U+0525", "U+0527", "U+0529",
    "U+052B", "U+052D", "U+052F", "U+0561", "U+0562", "U+0563", "U+0564",
    "U+0565", "U+0566", "U+0567", "U+0568", "U+0569", "U+056A", "U+056B",
    "U+056C", "U+056D", "U+056E", "U+056F", "U+0570", "U+0571", "U+0572",
    "U+0573", "U+0574", "U+0575", "U+0576", "U+0577", "U+0578", "U+0579",
    "U+057A", "U+057B", "U+057C", "U+057D", "U+057E", "U+057F", "U+0580",
    "U+0581", "U+0582", "U+0583", "U+0584", "U+0585", "U+0586", "U+2D00",
    "U+2D01", "U+2D02", "U+2D03", "U+2D04", "U+2D05", "U+2D06", "U+2D07",
    "U+2D08", "U+2D09", "U+2D0A", "U+2D0B", "U+2D0C", "U+2D0D", "U+2D0E",
    "U+2D0F", "U+2D10", "U+2D11", "U+2D12", "U+2D13", "U+2D14", "U+2D15",
    "U+2D16", "U+2D17", "U+2D18", "U+2D19", "U+2D1A", "U+2D1B", "U+2D1C",
    "U+2D1D", "U+2D1E", "U+2D1F", "U+2D20", "U+2D21", "U+2D22", "U+2D23",
    "U+2D24", "U+2D25", "U+2D27", "U+2D2D", "U+AB70", "U+AB71", "U+AB72",
    "U+AB73", "U+AB74", "U+AB75", "U+AB76", "U+AB77", "U+AB78", "U+AB79",
    "U+AB7A", "U+AB7B", "U+AB7C", "U+AB7D", "U+AB7E", "U+AB7F", "U+AB80",
    "U+AB81", "U+AB82", "U+AB83", "U+AB84", "U+AB85", "U+AB86", "U+AB87",
    "U+AB88", "U+AB89", "U+AB8A", "U+AB8B", "U+AB8C", "U+AB8D", "U+AB8E",
    "U+AB8F", "U+AB90", "U+AB91", "U+AB92", "U+AB93", "U+AB94", "U+AB95",
    "U+AB96", "U+AB97", "U+AB98", "U+AB99", "U+AB9A", "U+AB9B", "U+AB9C",
    "U+AB9D", "U+AB9E", "U+AB9F", "U+ABA0", "U+ABA1", "U+ABA2", "U+ABA3",
    "U+ABA4", "U+ABA5", "U+ABA6", "U+ABA7", "U+ABA8", "U+ABA9", "U+ABAA",
    "U+ABAB", "U+ABAC", "U+ABAD", "U+ABAE", "U+ABAF", "U+ABB0", "U+ABB1",
    "U+ABB2", "U+ABB3", "U+ABB4", "U+ABB5", "U+ABB6", "U+ABB7", "U+ABB8",
    "U+ABB9", "U+ABBA", "U+ABBB", "U+ABBC", "U+ABBD", "U+ABBE", "U+ABBF",
    "U+13F8", "U+13F9", "U+13FA", "U+13FB", "U+13FC", "U+13FD", "U+1C8A",
    "U+10D0", "U+10D1", "U+10D2", "U+10D3", "U+10D4", "U+10D5", "U+10D6",
    "U+10D7", "U+10D8", "U+10D9", "U+10DA", "U+10DB", "U+10DC", "U+10DD",
    "U+10DE", "U+10DF", "U+10E0", "U+10E1", "U+10E2", "U+10E3", "U+10E4",
    "U+10E5", "U+10E6", "U+10E7", "U+10E8", "U+10E9", "U+10EA", "U+10EB",
    "U+10EC", "U+10ED", "U+10EE", "U+10EF", "U+10F0", "U+10F1", "U+10F2",
    "U+10F3", "U+10F4", "U+10F5", "U+10F6", "U+10F7", "U+10F8", "U+10F9",
    "U+10FA", "U+10FD", "U+10FE", "U+10FF", "U+1E01", "U+1E03", "U+1E05",
    "U+1E07", "U+1E09", "U+1E0B", "U+1E0D", "U+1E0F", "U+1E11", "U+1E13",
    "U+1E15", "U+1E17", "U+1E19", "U+1E1B", "U+1E1D", "U+1E1F", "U+1E21",
    "U+1E23", "U+1E25", "U+1E27", "U+1E29", "U+1E2B", "U+1E2D", "U+1E2F",
    "U+1E31", "U+1E33", "U+1E35", "U+1E37", "U+1E39", "U+1E3B", "U+1E3D",
    "U+1E3F", "U+1E41", "U+1E43", "U+1E45", "U+1E47", "U+1E49", "U+1E4B",
    "U+1E4D", "U+1E4F", "U+1E51", "U+1E53", "U+1E55", "U+1E57", "U+1E59",
    "U+1E5B", "U+1E5D", "U+1E5F", "U+1E61", "U+1E63", "U+1E65", "U+1E67",
    "U+1E69", "U+1E6B", "U+1E6D", "U+1E6F", "U+1E71", "U+1E73", "U+1E75",
    "U+1E77", "U+1E79", "U+1E7B", "U+1E7D", "U+1E7F", "U+1E81", "U+1E83",
    "U+1E85", "U+1E87", "U+1E89", "U+1E8B", "U+1E8D", "U+1E8F", "U+1E91",
    "U+1E93", "U+1E95", "U+00DF", "U+1EA1", "U+1EA3", "U+1EA5", "U+1EA7",
    "U+1EA9", "U+1EAB", "U+1EAD", "U+1EAF", "U+1EB1", "U+1EB3", "U+1EB5",
    "U+1EB7", "U+1EB9", "U+1EBB", "U+1EBD", "U+1EBF", "U+1EC1", "U+1EC3",
    "U+1EC5", "U+1EC7", "U+1EC9", "U+1ECB", "U+1ECD", "U+1ECF", "U+1ED1",
    "U+1ED3", "U+1ED5", "U+1ED7", "U+1ED9", "U+1EDB", "U+1EDD", "U+1EDF",
    "U+1EE1", "U+1EE3", "U+1EE5", "U+1EE7", "U+1EE9", "U+1EEB", "U+1EED",
    "U+1EEF", "U+1EF1", "U+1EF3", "U+1EF5", "U+1EF7", "U+1EF9", "U+1EFB",
    "U+1EFD", "U+1EFF", "U+1F00", "U+1F01", "U+1F02", "U+1F03", "U+1F04",
    "U+1F05", "U+1F06", "U+1F07", "U+1F10", "U+1F11", "U+1F12", "U+1F13",
    "U+1F14", "U+1F15", "U+1F20", "U+1F21", "U+1F22", "U+1F23", "U+1F24",
    "U+1F25", "U+1F26", "U+1F27", "U+1F30", "U+1F31", "U+1F32", "U+1F33",
    "U+1F34", "U+1F35", "U+1F36", "U+1F37", "U+1F40", "U+1F41", "U+1F42",
    "U+1F43", "U+1F44", "U+1F45", "U+1F51", "U+1F53", "U+1F55", "U+1F57",
    "U+1F60", "U+1F61", "U+1F62", "U+1F63", "U+1F64", "U+1F65", "U+1F66",
    "U+1F67", "U+1F80", "U+1F81", "U+1F82", "U+1F83", "U+1F84", "U+1F85",
    "U+1F86", "U+1F87", "U+1F90", "U+1F91", "U+1F92", "U+1F93", "U+1F94",
    "U+1F95", "U+1F96", "U+1F97", "U+1FA0", "U+1FA1", "U+1FA2", "U+1FA3",
    "U+1FA4", "U+1FA5", "U+1FA6", "U+1FA7", "U+1FB0", "U+1FB1", "U+1F70",
    "U+1F71", "U+1FB3", "U+1F72", "U+1F73", "U+1F74", "U+1F75", "U+1FC3",
    "U+1FD0", "U+1FD1", "U+1F76", "U+1F77", "U+1FE0", "U+1FE1", "U+1F7A",
    "U+1F7B", "U+1FE5", "U+1F78", "U+1F79", "U+1F7C", "U+1F7D", "U+1FF3",
    "U+03C9", "k", "U+00E5", "U+214E", "U+2170", "U+2171", "U+2172", "U+2173",
    "U+2174", "U+2175", "U+2176", "U+2177", "U+2178", "U+2179", "U+217A",
    "U+217B", "U+217C", "U+217D", "U+217E", "U+217F", "U+2184", "U+24D0",
    "U+24D1", "U+24D2", "U+24D3", "U+24D4", "U+24D5", "U+24D6", "U+24D7",
    "U+24D8", "U+24D9", "U+24DA", "U+24DB", "U+24DC", "U+24DD", "U+24DE",
    "U+24DF", "U+24E0", "U+24E1", "U+24E2", "U+24E3", "U+24E4", "U+24E5",
    "U+24E6", "U+24E7", "U+24E8", "U+24E9", "U+2C30", "U+2C31", "U+2C32",
    "U+2C33", "U+2C34", "U+2C35", "U+2C36", "U+2C37", "U+2C38", "U+2C39",
    "U+2C3A", "U+2C3B", "U+2C3C", "U+2C3D", "U+2C3E", "U+2C3F", "U+2C40",
    "U+2C41", "U+2C42", "U+2C43", "U+2C44", "U+2C45", "U+2C46", "U+2C47",
    "U+2C48", "U+2C49", "U+2C4A", "U+2C4B", "U+2C4C", "U+2C4D", "U+2C4E",
    "U+2C4F", "U+2C50", "U+2C51", "U+2C52", "U+2C53", "U+2C54", "U+2C55",
    "U+2C56", "U+2C57", "U+2C58", "U+2C59", "U+2C5A", "U+2C5B", "U+2C5C",
    "U+2C5D", "U+2C5E", "U+2C5F", "U+2C61", "U+026B", "U+1D7D", "U+027D",
    "U+2C68", "U+2C6A", "U+2C6C", "U+0251", "U+0271", "U+0250", "U+0252",
    "U+2C73", "U+2C76", "U+023F", "U+0240", "U+2C81", "U+2C83", "U+2C85",
    "U+2C87", "U+2C89", "U+2C8B", "U+2C8D", "U+2C8F", "U+2C91", "U+2C93",
    "U+2C95", "U+2C97", "U+2C99", "U+2C9B", "U+2C9D", "U+2C9F", "U+2CA1",
    "U+2CA3", "U+2CA5", "U+2CA7", "U+2CA9", "U+2CAB", "U+2CAD", "U+2CAF",
    "U+2CB1", "U+2CB3", "U+2CB5", "U+2CB7", "U+2CB9", "U+2CBB", "U+2CBD",
    "U+2CBF", "U+2CC1", "U+2CC3", "U+2CC5", "U+2CC7", "U+2CC9", "U+2CCB",
    "U+2CCD", "U+2CCF", "U+2CD1", "U+2CD3", "U+2CD5", "U+2CD7", "U+2CD9",
    "U+2CDB", "U+2CDD", "U+2CDF", "U+2CE1", "U+2CE3", "U+2CEC", "U+2CEE",
    "U+2CF3", "U+A641", "U+A643", "U+A645", "U+A647", "U+A649", "U+A64B",
    "U+A64D", "U+A64F", "U+A651", "U+A653", "U+A655", "U+A657", "U+A659",
    "U+A65B", "U+A65D", "U+A65F", "U+A661", "U+A663", "U+A665", "U+A667",
    "U+A669", "U+A66B", "U+A66D", "U+A681", "U+A683", "U+A685", "U+A687",
    "U+A689", "U+A68B", "U+A68D", "U+A68F", "U+A691", "U+A693", "U+A695",
    "U+A697", "U+A699", "U+A69B", "U+A723", "U+A725", "U+A727", "U+A729",
    "U+A72B", "U+A72D", "U+A72F", "U+A733", "U+A735", "U+A737", "U+A739",
    "U+A73B", "U+A73D", "U+A73F", "U+A741", "U+A743", "U+A745", "U+A747",
    "U+A749", "U+A74B", "U+A74D", "U+A74F", "U+A751", "U+A753", "U+A755",
    "U+A757", "U+A759", "U+A75B", "U+A75D", "U+A75F", "U+A761", "U+A763",
    "U+A765", "U+A767", "U+A769", "U+A76B", "U+A76D", "U+A76F", "U+A77A",
    "U+A77C", "U+1D79", "U+A77F", "U+A781", "U+A783", "U+A785", "U+A787",
    "U+A78C", "U+0265", "U+A791", "U+A793", "U+A797", "U+A799", "U+A79B",
    "U+A79D", "U+A79F", "U+A7A1", "U+A7A3", "U+A7A5", "U+A7A7", "U+A7A9",
    "U+0266", "U+025C", "U+0261", "U+026C", "U+026A", "U+029E", "U+0287",
    "U+029D", "U+AB53", "U+A7B5", "U+A7B7", "U+A7B9", "U+A7BB", "U+A7BD",
    "U+A7BF", "U+A7C1", "U+A7C3", "U+A794", "U+0282", "U+1D8E", "U+A7C8",
    "U+A7CA", "U+0264", "U+A7CD", "U+A7CF", "U+A7D1", "U+A7D3", "U+A7D5",
    "U+A7D7", "U+A7D9", "U+A7DB", "U+019B", "U+A7F6", "U+FF41", "U+FF42",
    "U+FF43", "U+FF44", "U+FF45", "U+FF46", "U+FF47", "U+FF48", "U+FF49",
    "U+FF4A", "U+FF4B", "U+FF4C", "U+FF4D", "U+FF4E", "U+FF4F", "U+FF50",
    "U+FF51", "U+FF52", "U+FF53", "U+FF54", "U+FF55", "U+FF56", "U+FF57",
    "U+FF58", "U+FF59", "U+FF5A" >>

\* The lower-case form of each letter of UpperLetters.
LowerOf ==
  [c \in { UpperLetters[i] : i \in 1..Len(UpperLetters) } |->
     LowerLetters[CHOOSE i \in 1..Len(UpperLetters) : UpperLetters[i] = c]]

\* String.prototype.toLowerCase on a string of the one character c: the
\* capital I with dot above (U+0130) becomes i followed by the combining dot
\* above (U+0307), a letter of UpperLetters its lower-case form, and every
\* other character stays.
toLowerChar(c) ==
  IF c = "U+0130" THEN <<"i", "U+0307">>
  ELSE IF c \in DOMAIN LowerOf THEN <<LowerOf[c]>>
  ELSE <<c>>

\* The characters toLowerCase looks through when it searches the letter next
\* to a capital sigma (the case-ignorable characters: marks, format
\* characters, modifier letters and symbols, and the punctuation that stands
\* inside words).
CaseIgnorables ==
  {
    "'", ".", ":", "^", "U+0060", "U+00A8", "U+00AD", "U+00AF", "U+00B4",
    "U+00B7", "U+00B8", "U+02B0", "U+02B1", "U+02B2", "U+02B3", "U+02B4",
    "U+02B5", "U+02B6", "U+02B7", "U+02B8", "U+02B9", "U+02BA", "U+02BB",
    "U+02BC", "U+02BD", "U+02BE", "U+02BF", "U+02C0", "U+02C1", "U+02C2",
    "U+02C3", "U+02C4", "U+02C5", "U+02C6", "U+02C7", "U+02C8", "U+02C9",
    "U+02CA", "U+02CB", "U+02CC", "U+02CD", "U+02CE", "U+02CF", "U+02D0",
    "U+02D1", "U+02D2", "U+02D3", "U+02D4", "U+02D5", "U+02D6", "U+02D7",
    "U+02D8", "U+02D9", "U+02DA", "U+02DB", "U+02DC", "U+02DD", "U+02DE",
    "U+02DF", "U+02E0", "U+02E1", "U+02E2", "U+02E3", "U+02E4", "U+02E5",
    "U+02E6", "U+02E7", "U+02E8", "U+02E9", "U+02EA", "U+02EB", "U+02EC",
    "U+02ED", "U+02EE", "U+02EF", "U+02F0", "U+02F1", "U+02F2", "U+02F3",
    "U+02F4", "U+02F5", "U+02F6", "U+02F7", "U+02F8", "U+02F9", "U+02FA",
    "U+02FB", "U+02FC", "U+02FD", "U+02FE", "U+02FF", "U+0300", "U+0301",
    "U+0302", "U+0303", "U+0304", "U+0305", "U+0306", "U+0307", "U+0308",
    "U+0309", "U+030A", "U+030B", "U+030C", "U+030D", "U+030E", "U+030F",
    "U+0310", "U+0311", "U+0312", "U+0313", "U+0314", "U+0315", "U+0316",
    "U+0317", "U+0318", "U+0319", "U+031A", "U+031B", "U+031C", "U+031D",
    "U+031E", "U+031F", "U+0320", "U+0321", "U+0322", "U+0323", "U+0324",
    "U+0325", "U+0326", "U+0327", "U+0328", "U+0329", "U+032A", "U+032B",
    "U+032C", "U+032D", "U+032E", "U+032F", "U+0330", "U+0331", "U+0332",
    "U+0333", "U+0334", "U+0335", "U+0336", "U+0337", "U+0338", "U+0339",
    "U+033A", "U+033B", "U+033C", "U+033D", "U+033E", "U+033F", "U+0340",
    "U+0341", "U+0342", "U+0343", "U+0344", "U+0345", "U+0346", "U+0347",
    "U+0348", "U+0349", "U+034A", "U+034B", "U+034C", "U+034D", "U+034E",
    "U+034F", "U+0350", "U+0351", "U+0352", "U+0353", "U+0354", "U+0355",
    "U+0356", "U+0357", "U+0358", "U+0359", "U+035A", "U+035B", "U+035C",
    "U+035D", "U+035E", "U+035F", "U+0360", "U+0361", "U+0362", "U+0363",
    "U+0364", "U+0365", "U+0366", "U+0367", "U+0368", "U+0369", "U+036A",
    "U+036B", "U+036C", "U+036D", "U+036E", "U+036F", "U+0374", "U+0375",
    "U+037A", "U+0384", "U+0385", "U+0387", "U+0483", "U+0484", "U+0485",
    "U+0486", "U+0487", "U+0488", "U+0489", "U+0559", "U+055F", "U+0591",
    "U+0592", "U+0593", "U+0594", "U+0595", "U+0596", "U+0597", "U+0598",
    "U+0599", "U+059A", "U+059B", "U+059C", "U+059D", "U+059E", "U+059F",
    "U+05A0", "U+05A1", "U+05A2", "U+05A3", "U+05A4", "U+05A5", "U+05A6",
    "U+05A7", "U+05A8", "U+05A9", "U+05AA", "U+05AB", "U+05AC", "U+05AD",
    "U+05AE", "U+05AF", "U+05B0", "U+05B1", "U+05B2", "U+05B3", "U+05B4",
    "U+05B5", "U+05B6", "U+05B7", "U+05B8", "U+05B9", "U+05BA", "U+05BB",
    "U+05BC", "U+05BD", "U+05BF", "U+05C1", "U+05C2", "U+05C4", "U+05C5",
    "U+05C7", "U+05F4", "U+0600", "U+0601", "U+0602", "U+0603", "U+0604",
    "U+0605", "U+0610", "U+0611", "U+0612", "U+0613", "U+0614", "U+0615",
    "U+0616", "U+0617", "U+0618", "U+0619", "U+061A", "U+061C", "U+0640",
    "U+064B", "U+064C", "U+064D", "U+064E", "U+064F", "U+0650", "U+0651",
    "U+0652", "U+0653", "U+0654", "U+0655", "U+0656", "U+0657", "U+0658",
    "U+0659", "U+065A", "U+065B", "U+065C", "U+065D", "U+065E", "U+065F",
    "U+0670", "U+06D6", "U+06D7", "U+06D8", "U+06D9", "U+06DA", "U+06DB",
    "U+06DC", "U+06DD", "U+06DF", "U+06E0", "U+06E1", "U+06E2", "U+06E3",
    "U+06E4", "U+06E5", "U+06E6", "U+06E7", "U+06E8", "U+06EA", "U+06EB",
    "U+06EC", "U+06ED", "U+070F", "U+0711", "U+0730", "U+0731", "U+0732",
    "U+0733", "U+0734", "U+0735", "U+0736", "U+0737", "U+0738", "U+0739",
    "U+073A", "U+073B", "U+073C", "U+073D", "U+073E", "U+073F", "U+0740",
    "U+0741", "U+0742", "U+0743", "U+0744", "U+0745", "U+0746", "U+0747",
    "U+0748", "U+0749", "U+074A", "U+07A6", "U+07A7", "U+07A8", "U+07A9",
    "U+07AA", "U+07AB", "U+07AC", "U+07AD", "U+07AE", "U+07AF", "U+07B0",
    "U+07EB", "U+07EC", "U+07ED", "U+07EE", "U+07EF", "U+07F0", "U+07F1",
    "U+07F2", "U+07F3", "U+07F4", "U+07F5", "U+07FA", "U+07FD", "U+0816",
    "U+0817", "U+0818", "U+0819", "U+081A", "U+081B", "U+081C", "U+081D",
    "U+081E", "U+081F", "U+0820", "U+0821", "U+0822", "U+0823", "U+0824",
    "U+0825", "U+0826", "U+0827", "U+0828", "U+0829", "U+082A", "U+082B",
    "U+082C", "U+082D", "U+0859", "U+085A", "U+085B", "U+0888", "U+0890",
    "U+0891", "U+0897", "U+0898", "U+0899", "U+089A", "U+089B", "U+089C",
    "U+089D", "U+089E", "U+089F", "U+08C9", "U+08CA", "U+08CB", "U+08CC",
    "U+08CD", "U+08CE", "U+08CF", "U+08D0", "U+08D1", "U+08D2", "U+08D3",
    "U+08D4", "U+08D5", "U+08D6", "U+08D7", "U+08D8", "U+08D9", "U+08DA",
    "U+08DB", "U+08DC", "U+08DD", "U+08DE", "U+08DF", "U+08E0", "U+08E1",
    "U+08E2", "U+08E3", "U+08E4", "U+08E5", "U+08E6", "U+08E7", "U+08E8",
    "U+08E9", "U+08EA", "U+08EB", "U+08EC", "U+08ED", "U+08EE", "U+08EF",
    "U+08F0", "U+08F1", "U+08F2", "U+08F3", "U+08F4", "U+08F5", "U+08F6",
    "U+08F7", "U+08F8", "U+08F9", "U+08FA", "U+08FB", "U+08FC", "U+08FD",
    "U+08FE", "U+08FF", "U+0900", "U+0901", "U+0902", "U+093A", "U+093C",
    "U+0941", "U+0942", "U+0943", "U+0944", "U+0945", "U+0946", "U+0947",
    "U+0948", "U+094D", "U+0951", "U+0952", "U+0953", "U+0954", "U+0955",
    "U+0956", "U+0957", "U+0962", "U+0963", "U+0971", "U+0981", "U+09BC",
    "U+09C1", "U+09C2", "U+09C3", "U+09C4", "U+09CD", "U+09E2", "U+09E3",
    "U+09FE", "U+0A01", "U+0A02", "U+0A3C", "U+0A41", "U+0A42", "U+0A47",
    "U+0A48", "U+0A4B", "U+0A4C", "U+0A4D", "U+0A51", "U+0A70", "U+0A71",
    "U+0A75", "U+0A81", "U+0A82", "U+0ABC", "U+0AC1", "U+0AC2", "U+0AC3",
    "U+0AC4", "U+0AC5", "U+0AC7", "U+0AC8", "U+0ACD", "U+0AE2", "U+0AE3",
    "U+0AFA", "U+0AFB", "U+0AFC", "U+0AFD", "U+0AFE", "U+0AFF", "U+0B01",
    "U+0B3C", "U+0B3F", "U+0B41", "U+0B42", "U+0B43", "U+0B44", "U+0B4D",
    "U+0B55", "U+0B56", "U+0B62", "U+0B63", "U+0B82", "U+0BC0", "U+0BCD",
    "U+0C00", "U+0C04", "U+0C3C", "U+0C3E", "U+0C3F", "U+0C40", "U+0C46",
    "U+0C47", "U+0C48", "U+0C4A", "U+0C4B", "U+0C4C", "U+0C4D", "U+0C55",
    "U+0C56", "U+0C62", "U+0C63", "U+0C81", "U+0CBC", "U+0CBF", "U+0CC6",
    "U+0CCC", "U+0CCD", "U+0CE2", "U+0CE3", "U+0D00", "U+0D01", "U+0D3B",
    "U+0D3C", "U+0D41", "U+0D42", "U+0D43", "U+0D44", "U+0D4D", "U+0D62",
    "U+0D63", "U+0D81", "U+0DCA", "U+0DD2", "U+0DD3", "U+0DD4", "U+0DD6",
    "U+0E31", "U+0E34", "U+0E35", "U+0E36", "U+0E37", "U+0E38", "U+0E39",
    "U+0E3A", "U+0E46", "U+0E47", "U+0E48", "U+0E49", "U+0E4A", "U+0E4B",
    "U+0E4C", "U+0E4D", "U+0E4E", "U+0EB1", "U+0EB4", "U+0EB5", "U+0EB6",
    "U+0EB7", "U+0EB8", "U+0EB9", "U+0EBA", "U+0EBB", "U+0EBC", "U+0EC6",
    "U+0EC8", "U+0EC9", "U+0ECA", "U+0ECB", "U+0ECC", "U+0ECD", "U+0ECE",
    "U+0F18", "U+0F19", "U+0F35", "U+0F37", "U+0F39", "U+0F71", "U+0F72",
    "U+0F73", "U+0F74", "U+0F75", "U+0F76", "U+0F77", "U+0F78", "U+0F79",
    "U+0F7A", "U+0F7B", "U+0F7C", "U+0F7D", "U+0F7E", "U+0F80", "U+0F81",
    "U+0F82", "U+0F83", "U+0F84", "U+0F86", "U+0F87", "U+0F8D", "U+0F8E",
    "U+0F8F", "U+0F90", "U+0F91", "U+0F92", "U+0F93", "U+0F94", "U+0F95",
    "U+0F96", "U+0F97", "U+0F99", "U+0F9A", "U+0F9B", "U+0F9C", "U+0F9D",
    "U+0F9E", "U+0F9F", "U+0FA0", "U+0FA1", "U+0FA2", "U+0FA3", "U+0FA4",
    "U+0FA5", "U+0FA6", "U+0FA7", "U+0FA8", "U+0FA9", "U+0FAA", "U+0FAB",
    "U+0FAC", "U+0FAD", "U+0FAE", "U+0FAF", "U+0FB0", "U+0FB1", "U+0FB2",
    "U+0FB3", "U+0FB4", "U+0FB5", "U+0FB6", "U+0FB7", "U+0FB8", "U+0FB9",
    "U+0FBA", "U+0FBB", "U+0FBC", "U+0FC6", "U+102D", "U+102E", "U+102F",
    "U+1030", "U+1032", "U+1033", "U+1034", "U+1035", "U+1036", "U+1037",
    "U+1039", "U+103A", "U+103D", "U+103E", "U+1058", "U+1059", "U+105E",
    "U+105F", "U+1060", "U+1071", "U+1072", "U+1073", "U+1074", "U+1082",
    "U+1085", "U+1086", "U+108D", "U+109D", "U+10FC", "U+135D", "U+135E",
    "U+135F", "U+1712", "U+1713", "U+1714", "U+1732", "U+1733", "U+1752",
    "U+1753", "U+1772", "U+1773", "U+17B4", "U+17B5", "U+17B7", "U+17B8",
    "U+17B9", "U+17BA", "U+17BB", "U+17BC", "U+17BD", "U+17C6", "U+17C9",
    "U+17CA", "U+17CB", "U+17CC", "U+17CD", "U+17CE", "U+17CF", "U+17D0",
    "U+17D1", "U+17D2", "U+17D3", "U+17D7", "U+17DD", "U+180B", "U+180C",
    "U+180D", "U+180E", "U+180F", "U+1843", "U+1885", "U+1886", "U+18A9",
    "U+1920", "U+1921", "U+1922", "U+1927", "U+1928", "U+1932", "U+1939",
    "U+193A", "U+193B", "U+1A17", "U+1A18", "U+1A1B", "U+1A56", "U+1A58",
    "U+1A59", "U+1A5A", "U+1A5B", "U+1A5C", "U+1A5D", "U+1A5E", "U+1A60",
    "U+1A62", "U+1A65", "U+1A66", "U+1A67", "U+1A68", "U+1A69", "U+1A6A",
    "U+1A6B", "U+1A6C", "U+1A73", "U+1A74", "U+1A75", "U+1A76", "U+1A77",
    "U+1A78", "U+1A79", "U+1A7A", "U+1A7B", "U+1A7C", "U+1A7F", "U+1AA7",
    "U+1AB0", "U+1AB1", "U+1AB2", "U+1AB3", "U+1AB4", "U+1AB5", "U+1AB6",
    "U+1AB7", "U+1AB8", "U+1AB9", "U+1ABA", "U+1ABB", "U+1ABC", "U+1ABD",
    "U+1ABE", "U+1ABF", "U+1AC0", "U+1AC1", "U+1AC2", "U+1AC3", "U+1AC4",
    "U+1AC5", "U+1AC6", "U+1AC7", "U+1AC8", "U+1AC9", "U+1ACA", "U+1ACB",
    "U+1ACC", "U+1ACD", "U+1ACE", "U+1ACF", "U+1AD0", "U+1AD1", "U+1AD2",
    "U+1AD3", "U+1AD4", "U+1AD5", "U+1AD6", "U+1AD7", "U+1AD8", "U+1AD9",
    "U+1ADA", "U+1ADB", "U+1ADC", "U+1ADD", "U+1AE0", "U+1AE1", "U+1AE2",
    "U+1AE3", "U+1AE4", "U+1AE5", "U+1AE6", "U+1AE7", "U+1AE8", "U+1AE9",
    "U+1AEA", "U+1AEB", "U+1B00", "U+1B01", "U+1B02", "U+1B03", "U+1B34",
    "U+1B36", "U+1B37", "U+1B38", "U+1B39", "U+1B3A", "U+1B3C", "U+1B42",
    "U+1B6B", "U+1B6C", "U+1B6D", "U+1B6E", "U+1B6F", "U+1B70", "U+1B71",
    "U+1B72", "U+1B73", "U+1B80", "U+1B81", "U+1BA2", "U+1BA3", "U+1BA4",
    "U+1BA5", "U+1BA8", "U+1BA9", "U+1BAB", "U+1BAC", "U+1BAD", "U+1BE6",
    "U+1BE8", "U+1BE9", "U+1BED", "U+1BEF", "U+1BF0", "U+1BF1", "U+1C2C",
    "U+1C2D", "U+1C2E", "U+1C2F", "U+1C30", "U+1C31", "U+1C32", "U+1C33",
    "U+1C36", "U+1C37", "U+1C78", "U+1C79", "U+1C7A", "U+1C7B", "U+1C7C",
    "U+1C7D", "U+1CD0", "U+1CD1", "U+1CD2", "U+1CD4", "U+1CD5", "U+1CD6",
    "U+1CD7", "U+1CD8", "U+1CD9", "U+1CDA", "U+1CDB", "U+1CDC", "U+1CDD",
    "U+1CDE", "U+1CDF", "U+1CE0", "U+1CE2", "U+1CE3", "U+1CE4", "U+1CE5",
    "U+1CE6", "U+1CE7", "U+1CE8", "U+1CED", "U+1CF4", "U+1CF8", "U+1CF9",
    "U+1D2C", "U+1D2D", "U+1D2E", "U+1D2F", "U+1D30", "U+1D31", "U+1D32",
    "U+1D33", "U+1D34", "U+1D35", "U+1D36", "U+1D37", "U+1D38", "U+1D39",
    "U+1D3A", "U+1D3B", "U+1D3C", "U+1D3D", "U+1D3E", "U+1D3F", "U+1D40",
    "U+1D41", "U+1D42", "U+1D43", "U+1D44", "U+1D45", "U+1D46", "U+1D47",
    "U+1D48", "U+1D49", "U+1D4A", "U+1D4B", "U+1D4C", "U+1D4D", "U+1D4E",
    "U+1D4F", "U+1D50", "U+1D51", "U+1D52", "U+1D53", "U+1D54", "U+1D55",
    "U+1D56", "U+1D57", "U+1D58", "U+1D59", "U+1D5A", "U+1D5B", "U+1D5C",
    "U+1D5D", "U+1D5E", "U+1D5F", "U+1D60", "U+1D61", "U+1D62", "U+1D63",
    "U+1D64", "U+1D65", "U+1D66", "U+1D67", "U+1D68", "U+1D69", "U+1D6A",
    "U+1D78", "U+1D9B", "U+1D9C", "U+1D9D", "U+1D9E", "U+1D9F", "U+1DA0",
    "U+1DA1", "U+1DA2", "U+1DA3", "U+1DA4", "U+1DA5", "U+1DA6", "U+1DA7",
    "U+1DA8", "U+1DA9", "U+1DAA", "U+1DAB", "U+1DAC", "U+1DAD", "U+1DAE",
    "U+1DAF", "U+1DB0", "U+1DB1", "U+1DB2", "U+1DB3", "U+1DB4", "U+1DB5",
    "U+1DB6", "U+1DB7", "U+1DB8", "U+1DB9", "U+1DBA", "U+1DBB", "U+1DBC",
    "U+1DBD", "U+1DBE", "U+1DBF", "U+1DC0", "U+1DC1", "U+1DC2", "U+1DC3",
    "U+1DC4", "U+1DC5", "U+1DC6", "U+1DC7", "U+1DC8", "U+1DC9", "U+1DCA",
    "U+1DCB", "U+1DCC", "U+1DCD", "U+1DCE", "U+1DCF", "U+1DD0", "U+1DD1",
    "U+1DD2", "U+1DD3", "U+1DD4", "U+1DD5", "U+1DD6", "U+1DD7", "U+1DD8",
    "U+1DD9", "U+1DDA", "U+1DDB", "U+1DDC", "U+1DDD", "U+1DDE", "U+1DDF",
    "U+1DE0", "U+1DE1", "U+1DE2", "U+1DE3", "U+1DE4", "U+1DE5", "U+1DE6",
    "U+1DE7", "U+1DE8", "U+1DE9", "U+1DEA", "U+1DEB", "U+1DEC", "U+1DED",
    "U+1DEE", "U+1DEF", "U+1DF0", "U+1DF1", "U+1DF2", "U+1DF3", "U+1DF4",
    "U+1DF5", "U+1DF6", "U+1DF7", "U+1DF8", "U+1DF9", "U+1DFA", "U+1DFB",
    "U+1DFC", "U+1DFD", "U+1DFE", "U+1DFF", "U+1FBD", "U+1FBF", "U+1FC0",
    "U+1FC1", "U+1FCD", "U+1FCE", "U+1FCF", "U+1FDD", "U+1FDE", "U+1FDF",
    "U+1FED", "U+1FEE", "U+1FEF", "U+1FFD", "U+1FFE", "U+200B", "U+200C",
    "U+200D", "U+200E", "U+200F", "U+2018", "U+2019", "U+2024", "U+2027",
    "U+202A", "U+202B", "U+202C", "U+202D", "U+202E", "U+2060", "U+2061",
    "U+2062", "U+2063", "U+2064", "U+2066", "U+2067", "U+2068", "U+2069",
    "U+206A", "U+206B", "U+206C", "U+206D", "U+206E", "U+206F", "U+2071",
    "U+207F", "U+2090", "U+2091", "U+2092", "U+2093", "U+2094", "U+2095",
    "U+2096", "U+2097", "U+2098", "U+2099", "U+209A", "U+209B", "U+209C",
    "U+20D0", "U+20D1", "U+20D2", "U+20D3", "U+20D4", "U+20D5", "U+20D6",
    "U+20D7", "U+20D8", "U+20D9", "U+20DA", "U+20DB", "U+20DC", "U+20DD",
    "U+20DE", "U+20DF", "U+20E0", "U+20E1", "U+20E2", "U+20E3", "U+20E4",
    "U+20E5", "U+20E6", "U+20E7", "U+20E8", "U+20E9", "U+20EA", "U+20EB",
    "U+20EC", "U+20ED", "U+20EE", "U+20EF", "U+20F0", "U+2C7C", "U+2C7D",
    "U+2CEF", "U+2CF0", "U+2CF1", "U+2D6F", "U+2D7F", "U+2DE0", "U+2DE1",
    "U+2DE2", "U+2DE3", "U+2DE4", "U+2DE5", "U+2DE6", "U+2DE7", "U+2DE8",
    "U+2DE9", "U+2DEA", "U+2DEB", "U+2DEC", "U+2DED", "U+2DEE", "U+2DEF",
    "U+2DF0", "U+2DF1", "U+2DF2", "U+2DF3", "U+2DF4", "U+2DF5", "U+2DF6",
    "U+2DF7", "U+2DF8", "U+2DF9", "U+2DFA", "U+2DFB", "U+2DFC", "U+2DFD",
    "U+2DFE", "U+2DFF", "U+2E2F", "U+3005", "U+302A", "U+302B", "U+302C",
    "U+302D", "U+3031", "U+3032", "U+3033", "U+3034", "U+3035", "U+303B",
    "U+3099", "U+309A", "U+309B", "U+309C", "U+309D", "U+309E", "U+30FC",
    "U+30FD", "U+30FE", "U+A015", "U+A4F8", "U+A4F9", "U+A4FA", "U+A4FB",
    "U+A4FC", "U+A4FD", "U+A60C", "U+A66F", "U+A670", "U+A671", "U+A672",
    "U+A674", "U+A675", "U+A676", "U+A677", "U+A678", "U+A679", "U+A67A",
    "U+A67B", "U+A67C", "U+A67D", "U+A67F", "U+A69C", "U+A69D", "U+A69E",
    "U+A69F", "U+A6F0", "U+A6F1", "U+A700", "U+A701", "U+A702", "U+A703",
    "U+A704", "U+A705", "U+A706", "U+A707", "U+A708", "U+A709", "U+A70A",
    "U+A70B", "U+A70C", "U+A70D", "U+A70E", "U+A70F", "U+A710", "U+A711",
    "U+A712", "U+A713", "U+A714", "U+A715", "U+A716", "U+A717", "U+A718",
    "U+A719", "U+A71A", "U+A71B", "U+A71C", "U+A71D", "U+A71E", "U+A71F",
    "U+A720", "U+A721", "U+A770", "U+A788", "U+A789", "U+A78A", "U+A7F1",
    "U+A7F2", "U+A7F3", "U+A7F4", "U+A7F8", "U+A7F9", "U+A802", "U+A806",
    "U+A80B", "U+A825", "U+A826", "U+A82C", "U+A8C4", "U+A8C5", "U+A8E0",
    "U+A8E1", "U+A8E2", "U+A8E3", "U+A8E4", "U+A8E5", "U+A8E6", "U+A8E7",
    "U+A8E8", "U+A8E9", "U+A8EA", "U+A8EB", "U+A8EC", "U+A8ED", "U+A8EE",
    "U+A8EF", "U+A8F0", "U+A8F1", "U+A8FF", "U+A926", "U+A927", "U+A928",
    "U+A929", "U+A92A", "U+A92B", "U+A92C", "U+A92D", "U+A947", "U+A948",
    "U+A949", "U+A94A", "U+A94B", "U+A94C", "U+A94D", "U+A94E", "U+A94F",
    "U+A950", "U+A951", "U+A980", "U+A981", "U+A982", "U+A9B3", "U+A9B6",
    "U+A9B7", "U+A9B8", "U+A9B9", "U+A9BC", "U+A9BD", "U+A9CF", "U+A9E5",
    "U+A9E6", "U+AA29", "U+AA2A", "U+AA2B", "U+AA2C", "U+AA2D", "U+AA2E",
    "U+AA31", "U+AA32", "U+AA35", "U+AA36", "U+AA43", "U+AA4C", "U+AA70",
    "U+AA7C", "U+AAB0", "U+AAB2", "U+AAB3", "U+AAB4", "U+AAB7", "U+AAB8",
    "U+AABE", "U+AABF", "U+AAC1", "U+AADD", "U+AAEC", "U+AAED", "U+AAF3",
    "U+AAF4", "U+AAF6", "U+AB5B", "U+AB5C", "U+AB5D", "U+AB5E", "U+AB5F",
    "U+AB69", "U+AB6A", "U+AB6B", "U+ABE5", "U+ABE8", "U+ABED", "U+FB1E",
    "U+FBB2", "U+FBB3", "U+FBB4", "U+FBB5", "U+FBB6", "U+FBB7", "U+FBB8",
    "U+FBB9", "U+FBBA", "U+FBBB", "U+FBBC", "U+FBBD", "U+FBBE", "U+FBBF",
    "U+FBC0", "U+FBC1", "U+FBC2", "U+FE00", "U+FE01", "U+FE02", "U+FE03",
    "U+FE04", "U+FE05", "U+FE06", "U+FE07", "U+FE08", "U+FE09", "U+FE0A",
    "U+FE0B", "U+FE0C", "U+FE0D", "U+FE0E", "U+FE0F", "U+FE13", "U+FE20",
    "U+FE21", "U+FE22", "U+FE23", "U+FE24", "U+FE25", "U+FE26", "U+FE27",
    "U+FE28", "U+FE29", "U+FE2A", "U+FE2B", "U+FE2C", "U+FE2D", "U+FE2E",
    "U+FE2F", "U+FE52", "U+FE55", "U+FEFF", "U+FF07", "U+FF0E", "U+FF1A",
    "U+FF3E", "U+FF40", "U+FF70", "U+FF9E", "U+FF9F", "U+FFE3", "U+FFF9",
    "U+FFFA", "U+FFFB" }

CaseIgnorable(c) == c \in CaseIgnorables

\* The letters that have a case and are neither in UpperLetters nor in
\* LowerLetters.
OtherCased ==
  {
    "U+00AA", "U+00B5", "U+00BA", "U+0130", "U+0131", "U+0138", "U+0149",
    "U+017F", "U+018D", "U+01AA", "U+01AB", "U+01BA", "U+01BE", "U+01F0",
    "U+0221", "U+0234", "U+0235", "U+0236", "U+0237", "U+0238", "U+0239",
    "U+0255", "U+0258", "U+025A", "U+025D", "U+025E", "U+025F", "U+0262",
    "U+0267", "U+026D", "U+026E", "U+0270", "U+0273", "U+0274", "U+0276",
    "U+0277", "U+0278", "U+0279", "U+027A", "U+027B", "U+027C", "U+027E",
    "U+027F", "U+0281", "U+0284", "U+0285", "U+0286", "U+028D", "U+028E",
    "U+028F", "U+0290", "U+0291", "U+0293", "U+0296", "U+0297", "U+0298",
    "U+0299", "U+029A", "U+029B", "U+029C", "U+029F", "U+02A0", "U+02A1",
    "U+02A2", "U+02A3", "U+02A4", "U+02A5", "U+02A6", "U+02A7", "U+02A8",
    "U+02A9", "U+02AA", "U+02AB", "U+02AC", "U+02AD", "U+02AE", "U+02AF",
    "U+0390", "U+03B0", "U+03C2", "U+03D0", "U+03D1", "U+03D2", "U+03D3",
    "U+03D4", "U+03D5", "U+03D6", "U+03F0", "U+03F1", "U+03F5", "U+03FC",
    "U+0560", "U+0587", "U+0588", "U+1C80", "U+1C81", "U+1C82", "U+1C83",
    "U+1C84", "U+1C85", "U+1C86", "U+1C87", "U+1C88", "U+1D00", "U+1D01",
    "U+1D02", "U+1D03", "U+1D04", "U+1D05", "U+1D06", "U+1D07", "U+1D08",
    "U+1D09", "U+1D0A", "U+1D0B", "U+1D0C", "U+1D0D", "U+1D0E", "U+1D0F",
    "U+1D10", "U+1D11", "U+1D12", "U+1D13", "U+1D14", "U+1D15", "U+1D16",
    "U+1D17", "U+1D18", "U+1D19", "U+1D1A", "U+1D1B", "U+1D1C", "U+1D1D",
    "U+1D1E", "U+1D1F", "U+1D20", "U+1D21", "U+1D22", "U+1D23", "U+1D24",
    "U+1D25", "U+1D26", "U+1D27", "U+1D28", "U+1D29", "U+1D2A", "U+1D2B",
    "U+1D6B", "U+1D6C", "U+1D6D", "U+1D6E", "U+1D6F", "U+1D70", "U+1D71",
    "U+1D72", "U+1D73", "U+1D74", "U+1D75", "U+1D76", "U+1D77", "U+1D7A",
    "U+1D7B", "U+1D7C", "U+1D7E", "U+1D7F", "U+1D80", "U+1D81", "U+1D82",
    "U+1D83", "U+1D84", "U+1D85", "U+1D86", "U+1D87", "U+1D88", "U+1D89",
    "U+1D8A", "U+1D8B", "U+1D8C", "U+1D8D", "U+1D8F", "U+1D90", "U+1D91",
    "U+1D92", "U+1D93", "U+1D94", "U+1D95", "U+1D96", "U+1D97", "U+1D98",
    "U+1D99", "U+1D9A", "U+1E96", "U+1E97", "U+1E98", "U+1E99", "U+1E9A",
    "U+1E9B", "U+1E9C", "U+1E9D", "U+1E9F", "U+1F50", "U+1F52", "U+1F54",
    "U+1F56", "U+1FB2", "U+1FB4", "U+1FB6", "U+1FB7", "U+1FBE", "U+1FC2",
    "U+1FC4", "U+1FC6", "U+1FC7", "U+1FD2", "U+1FD3", "U+1FD6", "U+1FD7",
    "U+1FE2", "U+1FE3", "U+1FE4", "U+1FE6", "U+1FE7", "U+1FF2", "U+1FF4",
    "U+1FF6", "U+1FF7", "U+2102", "U+2107", "U+210A", "U+210B", "U+210C",
    "U+210D", "U+210E", "U+210F", "U+2110", "U+2111", "U+2112", "U+2113",
    "U+2115", "U+2119", "U+211A", "U+211B", "U+211C", "U+211D", "U+2124",
    "U+2128", "U+212C", "U+212D", "U+212F", "U+2130", "U+2131", "U+2133",
    "U+2134", "U+2139", "U+213C", "U+213D", "U+213E", "U+213F", "U+2145",
    "U+2146", "U+2147", "U+2148", "U+2149", "U+2C71", "U+2C74", "U+2C77",
    "U+2C78", "U+2C79", "U+2C7A", "U+2C7B", "U+2CE4", "U+A730", "U+A731",
    "U+A771", "U+A772", "U+A773", "U+A774", "U+A775", "U+A776", "U+A777",
    "U+A778", "U+A78E", "U+A795", "U+A7AF", "U+A7FA", "U+AB30", "U+AB31",
    "U+AB32", "U+AB33", "U+AB34", "U+AB35", "U+AB36", "U+AB37", "U+AB38",
    "U+AB39", "U+AB3A", "U+AB3B", "U+AB3C", "U+AB3D", "U+AB3E", "U+AB3F",
    "U+AB40", "U+AB41", "U+AB42", "U+AB43", "U+AB44", "U+AB45", "U+AB46",
    "U+AB47", "U+AB48", "U+AB49", "U+AB4A", "U+AB4B", "U+AB4C", "U+AB4D",
    "U+AB4E", "U+AB4F", "U+AB50", "U+AB51", "U+AB52", "U+AB54", "U+AB55",
    "U+AB56", "U+AB57", "U+AB58", "U+AB59", "U+AB5A", "U+AB60", "U+AB61",
    "U+AB62", "U+AB63", "U+AB64", "U+AB65", "U+AB66", "U+AB67", "U+AB68",
    "U+FB00", "U+FB01", "U+FB02", "U+FB03", "U+FB04", "U+FB05", "U+FB06",
    "U+FB13", "U+FB14", "U+FB15", "U+FB16", "U+FB17" }

\* The letters that have a case, the case-ignorable ones apart, which
\* toLowerCase looks through before it tests the case.
Cased(c) ==
  /\ \/ c \in DOMAIN LowerOf
     \/ c \in { LowerLetters[i] : i \in 1..Len(LowerLetters) }
     \/ c \in OtherCased
  /\ ~CaseIgnorable(c)

\* The capital sigma at position i ends a word: a cased letter stands before
\* it, case-ignorable characters apart, and none stands after it.
finalSigma(s, i) ==
  /\ \E j \in 1..(i - 1) :
       Cased(s[j]) /\ \A k \in (j + 1)..(i - 1) : CaseIgnorable(s[k])
  /\ ~\E j \in (i + 1)..Len(s) :
       Cased(s[j]) /\ \A k \in (i + 1)..(j - 1) : CaseIgnorable(s[k])

\* The lower case of s from position i on.
RECURSIVE lowered(_, _)
lowered(s, i) ==
  IF i > Len(s) THEN <<>>
  ELSE (IF s[i] = "U+03A3" /\ finalSigma(s, i) THEN <<"U+03C2">>
        ELSE toLowerChar(s[i])) \o lowered(s, i + 1)

\* String.prototype.toLowerCase: character by character, the capital sigma
\* (U+03A3) that ends a word becoming the final sigma (U+03C2).
toLowerCase(s) == lowered(s, 1)

\* The white space String.prototype.trim removes: space, tab, line feed,
\* carriage return, form feed, vertical tab (U+000B), no-break space
\* (U+00A0), the space separators U+1680, U+2000 to U+200A, U+202F, U+205F
\* and U+3000, the line and paragraph separators U+2028 and U+2029, and the
\* byte order mark U+FEFF.
IsWhiteSpace(c) ==
  c \in {" ", "\t", "\n", "\r", "\f", "", "U+00A0", "U+1680", "U+2000",
          "U+2001", "U+2002", "U+2003", "U+2004", "U+2005", "U+2006", "U+2007", "U+2008", "U+2009",
          "U+200A", "U+2028", "U+2029", "U+202F", "U+205F", "U+3000", "U+FEFF" }

RECURSIVE trimStart(_)
trimStart(s) ==
  IF s # <<>> /\ IsWhiteSpace(Head(s)) THEN trimStart(Tail(s)) ELSE s

RECURSIVE trimEnd(_)
trimEnd(s) ==
  IF s # <<>> /\ IsWhiteSpace(s[Len(s)]) THEN trimEnd(SubSeq(s, 1, Len(s) - 1)) ELSE s

\* String.prototype.trim.
trim(s) == trimEnd(trimStart(s))

\* String.prototype.includes: needle occurs in hay at some offset.
includes(hay, needle) ==
  \E off \in 0..(Len(hay) - Len(needle)) :
    SubSeq(hay, off + 1, off + Len(needle)) = needle

\* String.prototype.split with a one-character separator.
RECURSIVE splitChar(_, _, _)
splitChar(s, sep, cur) ==
  IF s = <<>> THEN <<cur>>
  ELSE IF Head(s) = sep THEN <<cur>> \o splitChar(Tail(s), sep, <<>>)
  ELSE splitChar(Tail(s), sep, Append(cur, Head(s)))

\* Array.prototype.join.
RECURSIVE join(_, _)
join(parts, glue) ==
  IF parts = <<>> THEN <<>>
  ELSE IF Len(parts) = 1 THEN parts[1]
  ELSE parts[1] \o glue \o join(Tail(parts), glue)

\* text.split(/\r?\n/): a line ends at each "\n", and a "\r" right before that
\* "\n" belongs to the line break.
RECURSIVE splitLines(_, _)
splitLines(s, cur) ==
  IF s = <<>> THEN <<cur>>
  ELSE IF Head(s) = "\n"
       THEN <<IF cur # <<>> /\ cur[Len(cur)] = "\r"
              THEN SubSeq(cur, 1, Len(cur) - 1) ELSE cur>>
            \o splitLines(Tail(s), <<>>)
  ELSE splitLines(Tail(s), Append(cur, Head(s)))

-----------------------------------------------------------------------------
(* detectCSVSeparator                                                      *)

separators == <<";", ",", "\t", "|">>

\* The number of lines the separator score is summed over: slice(0, 5).
SampleSize == 5

\* bestScore starts at -Infinity: below every score, a score being >= 0.
NegInfinity == -1

\* text.split(/\r?\n/).filter(Boolean).slice(0, 5)
sampleLines(text) ==
  LET nonEmpty == SelectSeq(splitLines(text, <<>>), LAMBDA l : l # <<>>)
  IN  SubSeq(nonEmpty, 1, Min(SampleSize, Len(nonEmpty)))

\* The inner forEach: score += line.split(sep).length
RECURSIVE sepScore(_, _)
sepScore(lines, sep) ==
  IF lines = <<>> THEN 0
  ELSE Len(splitChar(Head(lines), sep, <<>>)) + sepScore(Tail(lines), sep)

BetterGE(score, bestScore) == score >= bestScore

\* if (score > bestScore)
Better(score, bestScore) == score > bestScore

\* The outer forEach over the candidates, from candidate i on.
RECURSIVE bestFrom(_, _, _)
bestFrom(lines, i, best) ==
  IF i > Len(separators) THEN best
  ELSE LET score == sepScore(lines, separators[i])
       IN  bestFrom(lines, i + 1,
                    IF Better(score, best.bestScore)
                    THEN [bestScore |-> score, bestSeparator |-> separators[i]]
                    ELSE best)

detectCSVSeparator(text) ==
  bestFrom(sampleLines(text), 1,
           [bestScore |-> NegInfinity, bestSeparator |-> ","]).bestSeparator

-----------------------------------------------------------------------------
(* The initial application state (src/app.js:26-39).                       *)

\* The two scripts of the repository, each the whole application.
AppJs == "src/app.js"
Part000 == "src/unnamed/part_000"
Builds == { AppJs, Part000 }

\* No file loaded, nothing shown and no import under way.
NothingLoaded ==
  /\ analyse = Null
  /\ status = ""
  /\ thead = <<>>
  /\ boxes = <<>>
  /\ pending = <<>>
  /\ imports = 0
  /\ lastSelected = [analyse |-> Null, ref |-> Null, cmp |-> Null]

StateInit ==
  /\ mode = "analyse"
  /\ comparaison = [ref |-> Null, cmp |-> Null, keywords |-> <<>>]
  /\ selectedColumns = {}
  /\ caseSensitive = FALSE
  /\ filters = [keywords |-> <<>>]
  /\ NothingLoaded

-----------------------------------------------------------------------------
(* Rows: a row object is the sequence of its [k, v] properties, in the     *)
(* object's property order.                                                *)

\* The property __proto__ of Object.prototype, a getter and a setter.
KeyProto == <<"_", "_", "p", "r", "o", "t", "o", "_", "_">>

KeyConstructor == <<"c", "o", "n", "s", "t", "r", "u", "c", "t", "o", "r">>

\* The methods of Object.prototype every row object inherits.
PrototypeMethods ==
  { <<"_", "_", "d", "e", "f", "i", "n", "e", "G", "e", "t", "t", "e", "r", "_", "_">>,
    <<"_", "_", "d", "e", "f", "i", "n", "e", "S", "e", "t", "t", "e", "r", "_", "_">>,
    <<"h", "a", "s", "O", "w", "n", "P", "r", "o", "p", "e", "r", "t", "y">>,
    <<"_", "_", "l", "o", "o", "k", "u", "p", "G", "e", "t", "t", "e", "r", "_", "_">>,
    <<"_", "_", "l", "o", "o", "k", "u", "p", "S", "e", "t", "t", "e", "r", "_", "_">>,
    <<"i", "s", "P", "r", "o", "t", "o", "t", "y", "p", "e", "O", "f">>,
    <<"p", "r", "o", "p", "e", "r", "t", "y", "I", "s", "E", "n", "u", "m", "e", "r", "a", "b", "l", "e">>,
    <<"t", "o", "S", "t", "r", "i", "n", "g">>,
    <<"v", "a", "l", "u", "e", "O", "f">>,
    <<"t", "o", "L", "o", "c", "a", "l", "e", "S", "t", "r", "i", "n", "g">> }

\* The value a row object inherits under a name it has no property of its own
\* for: Object.prototype for __proto__, the function Object for constructor,
\* the method for a method name, undefined (Null) for every other name.
inherited(key) ==
  IF key = KeyProto THEN ObjectPrototype
  ELSE IF key = KeyConstructor THEN Fn(<<"O", "b", "j", "e", "c", "t">>)
  ELSE IF key \in PrototypeMethods THEN Fn(key)
  ELSE Null

\* The value of the row's own property named header, Null when it has none.
RECURSIVE GetOwn(_, _)
GetOwn(row, header) ==
  IF row = <<>> THEN Null
  ELSE IF Head(row).k = header THEN Head(row).v
  ELSE GetOwn(Tail(row), header)

\* row[header]: the value of the row's own property named header, else the
\* value inherited from Object.prototype under that name.
Get(row, header) ==
  IF \E i \in 1..Len(row) : row[i].k = header THEN GetOwn(row, header)
  ELSE inherited(header)

\* Decimal digit strings, compared as numbers without computing them.
IsDigit(c) == c \in {"0", "1", "2", "3", "4", "5", "6", "7", "8", "9"}

DigitValue(c) ==
  CHOOSE d \in 0..9 : <<"0", "1", "2", "3", "4", "5", "6", "7", "8", "9">>[d + 1] = c

RECURSIVE LexLess(_, _)
LexLess(a, b) ==
  IF a = <<>> THEN FALSE
  ELSE IF Head(a) # Head(b) THEN DigitValue(Head(a)) < DigitValue(Head(b))
  ELSE LexLess(Tail(a), Tail(b))

NumLess(a, b) == Len(a) < Len(b) \/ (Len(a) = Len(b) /\ LexLess(a, b))

\* A property name that is an array index (a canonical integer below 2^32 - 1):
\* JavaScript lists such properties first, in ascending numeric order.
IsArrayIndex(key) ==
  /\ key # <<>>
  /\ \A i \in 1..Len(key) : IsDigit(key[i])
  /\ Len(key) = 1 \/ key[1] # "0"
  /\ NumLess(key, <<"4", "2", "9", "4", "9", "6", "7", "2", "9", "5">>)

\* Whether property name a is listed before a new property name b.
ListedBefore(a, b) ==
  IF IsArrayIndex(b) THEN IsArrayIndex(a) /\ NumLess(a, b) ELSE TRUE

\* obj[key] = value: an existing property keeps its place; a new one is
\* listed after the properties that come before it.  Under the name __proto__
\* the assignment runs the setter of Object.prototype, which ignores a value
\* that is a string or a number and creates no property.
setProp(obj, key, value) ==
  IF key = KeyProto THEN obj
  ELSE IF \E i \in 1..Len(obj) : obj[i].k = key
  THEN [i \in 1..Len(obj) |->
          IF obj[i].k = key THEN [k |-> key, v |-> value] ELSE obj[i]]
  ELSE LET n == Cardinality({ i \in 1..Len(obj) : ListedBefore(obj[i].k, key) })
       IN  SubSeq(obj, 1, n) \o <<[k |-> key, v |-> value]>> \o SubSeq(obj, n + 1, Len(obj))

\* Object.values(obj)
ObjectValues(obj) == [i \in 1..Len(obj) |-> obj[i].v]

\* A hole of a headers array: a position of the array that holds no element.
\* It stands among header strings, and no string is a hole, a string being a
\* sequence of characters.
HeaderHole == <<"<hole>">>

\* The row object built by headers.forEach((header, index) => row[header] = ...)
\* from the cell values, given position by position; forEach skips the holes
\* of headers.
RECURSIVE rowFrom(_, _, _, _)
rowFrom(headers, values, index, row) ==
  IF index > Len(headers) THEN row
  ELSE rowFrom(headers, values, index + 1,
               IF headers[index] = HeaderHole THEN row
               ELSE setProp(row, headers[index], values[index]))

-----------------------------------------------------------------------------
(* Keywords: parseKeywords, extractKeywordsFromReference,                  *)
(* handleKeywordInputChange                                                *)

\* raw.split(',').map(trim).filter(length > 0)
parseKeywords(raw) ==
  LET pieces == splitChar(raw, ",", <<>>)
      trimmed == [i \in 1..Len(pieces) |-> trim(pieces[i])]
  IN  SelectSeq(trimmed, LAMBDA keyword : Len(keyword) > 0)

\* unique.add(...) over the values of one row, from value i on; unique is the
\* Set, kept as the sequence of its members in insertion order.
RECURSIVE addValues(_, _, _)
addValues(values, i, unique) ==
  IF i > Len(values) THEN unique
  ELSE addValues(values, i + 1,
         IF /\ ~IsNull(values[i])
            /\ trim(String(values[i])) # <<>>
            /\ trim(String(values[i])) \notin { unique[j] : j \in 1..Len(unique) }
         THEN Append(unique, trim(String(values[i])))
         ELSE unique)

RECURSIVE addRows(_, _, _)
addRows(rows, i, unique) ==
  IF i > Len(rows) THEN unique
  ELSE addRows(rows, i + 1, addValues(ObjectValues(rows[i]), 1, unique))

extractKeywordsFromReference(refData) ==
  IF IsNull(refData) THEN <<>> ELSE addRows(refData.rows, 1, <<>>)

useReferenceAnyMode(parsed) ==
  Len(parsed) = 0 /\ Len(comparaison.keywords) > 0

\* The test that makes handleKeywordInputChange fall back on the keywords of
\* the reference file.
useReference(parsed) ==
  /\ Len(parsed) = 0
  /\ mode = "comparaison"
  /\ Len(comparaison.keywords) > 0

\* handleKeywordInputChange(rawValue): the new state.filters.keywords and the
\* returned text.
handleKeywordInputChange(rawValue) ==
  IF useReference(parseKeywords(rawValue))
  THEN [keywords |-> comparaison.keywords,
        returned |-> join(comparaison.keywords, <<",", " ">>)]
  ELSE [keywords |-> parseKeywords(rawValue), returned |-> rawValue]

-----------------------------------------------------------------------------
(* filterRowsByKeywords                                                    *)

\* headers.filter((header) => state.selectedColumns.has(header)); filter
\* skips the holes of headers.
selectedHeaders(headers) ==
  SelectSeq(headers, LAMBDA header : header # HeaderHole /\ header \in selectedColumns)

\* compare: value.includes(keyword), both lower-cased unless caseSensitive.
compare(value, keyword) ==
  IF caseSensitive THEN includes(value, keyword)
  ELSE includes(toLowerCase(value), toLowerCase(keyword))

\* preparedKeywords
preparedKeywords ==
  IF caseSensitive THEN filters.keywords
  ELSE [i \in 1..Len(filters.keywords) |-> toLowerCase(filters.keywords[i])]

\* comparable = state.caseSensitive ? textValue : textValue.toLowerCase()
comparable(textValue) ==
  IF caseSensitive THEN textValue ELSE toLowerCase(textValue)

\* preparedKeywords.forEach for one cell, from keyword index on.
RECURSIVE cellMatches(_, _, _)
cellMatches(value, header, index) ==
  IF index > Len(preparedKeywords) THEN <<>>
  ELSE (IF /\ Len(preparedKeywords[index]) # 0
           /\ compare(value, preparedKeywords[index])
        THEN <<[keyword |-> filters.keywords[index], header |-> header]>>
        ELSE <<>>)
       \o cellMatches(value, header, index + 1)

\* selectedHeaders.forEach for one row.
RECURSIVE rowMatches(_, _)
rowMatches(row, hs) ==
  IF hs = <<>> THEN <<>>
  ELSE (IF IsNull(Get(row, Head(hs))) THEN <<>>
        ELSE cellMatches(comparable(String(Get(row, Head(hs)))), Head(hs), 1))
       \o rowMatches(row, Tail(hs))

keepRowAnalyseStyle(matches) == filters.keywords = <<>> \/ Len(matches) > 0

keepRowAlways(matches) == TRUE

\* The inclusion test at the end of the row loop.
keepRow(matches) ==
  IF mode = "analyse"
  THEN filters.keywords = <<>> \/ Len(matches) > 0
  ELSE Len(matches) > 0

\* rows.forEach, from row i on.  A filtered row holds the row object: ref is
\* the identity of that object, its position in rows.
RECURSIVE keptRowsDedupFrom(_, _, _)
keptRowsDedupFrom(rows, headers, i) ==
  IF i > Len(rows) THEN <<>>
  ELSE LET matches == rowMatches(rows[i], selectedHeaders(headers))
       IN  (IF keepRow(matches) /\ \A j \in 1..(i - 1) : rows[j] # rows[i]
            THEN <<[row |-> rows[i], ref |-> i, matches |-> matches]>>
            ELSE <<>>)
           \o keptRowsDedupFrom(rows, headers, i + 1)

RECURSIVE keptRowsFrom(_, _, _)
keptRowsFrom(rows, headers, i) ==
  IF i > Len(rows) THEN <<>>
  ELSE LET matches == rowMatches(rows[i], selectedHeaders(headers))
       IN  (IF keepRow(matches)
            THEN <<[row |-> rows[i], ref |-> i, matches |-> matches]>>
            ELSE <<>>)
           \o keptRowsFrom(rows, headers, i + 1)

keptRowsDedup(rows, headers) == keptRowsDedupFrom(rows, headers, 1)

keptRows(rows, headers) == keptRowsFrom(rows, headers, 1)

filterRowsByKeywords(rows, headers) ==
  IF Len(filters.keywords) = 0 /\ mode = "analyse"
  THEN [i \in 1..Len(rows) |-> [row |-> rows[i], ref |-> i, matches |-> <<>>]]
  ELSE keptRows(rows, headers)

-----------------------------------------------------------------------------
(* Rendering and the handlers' effect on the application state.  S is the  *)
(* state the handler has reached so far; each function gives the state     *)
(* after it.                                                               *)

\* The application state and what the page shows, as one record.
Cur ==
  [mode |-> mode, analyse |-> analyse, comparaison |-> comparaison,
   selectedColumns |-> selectedColumns, caseSensitive |-> caseSensitive,
   filters |-> filters, status |-> status, thead |-> thead, boxes |-> boxes]

\* The handler ends in state S.
Becomes(S) ==
  /\ mode' = S.mode
  /\ analyse' = S.analyse
  /\ comparaison' = S.comparaison
  /\ selectedColumns' = S.selectedColumns
  /\ caseSensitive' = S.caseSensitive
  /\ filters' = S.filters
  /\ status' = S.status
  /\ thead' = S.thead
  /\ boxes' = S.boxes
  /\ build' = build

\* The member undefined of a Set of headers.  It stands among header
\* strings, and no string is it, a string being a sequence of characters.
Undefined == <<"<undefined>">>

\* new Set(headers): the iteration of the array reads a hole as undefined.
newSet(headers) ==
  { IF headers[i] = HeaderHole THEN Undefined ELSE headers[i] : i \in 1..Len(headers) }

\* renderColumnCheckboxes(headers): the head is rebuilt with one checkbox per
\* header, checked when the header is selected; forEach skips the holes of
\* headers.
renderColumnCheckboxes(S, headers) ==
  LET shown == SelectSeq(headers, LAMBDA header : header # HeaderHole)
  IN  [S EXCEPT !.thead = shown,
                !.boxes = [i \in 1..Len(shown) |-> shown[i] \in S.selectedColumns]]

\* renderTable(headers, filteredRows), as to the head of the table.
renderTable(S, headers) == renderColumnCheckboxes(S, headers)

renderAnalyseTable(S) ==
  IF IsNull(S.analyse) THEN S ELSE renderTable(S, S.analyse.headers)

\* if (keywords.length && state.filters.keywords.length === 0)
seedsKeywords(S) ==
  Len(S.comparaison.keywords) > 0 /\ Len(S.filters.keywords) = 0

renderComparisonTable(S) ==
  IF IsNull(S.comparaison.cmp) THEN S
  ELSE renderTable(
         [S EXCEPT !.filters.keywords =
                     IF seedsKeywords(S) THEN S.comparaison.keywords ELSE @],
         S.comparaison.cmp.headers)

refreshTable(S) ==
  IF S.mode = "analyse" /\ ~IsNull(S.analyse) THEN renderAnalyseTable(S)
  ELSE IF S.mode = "comparaison" /\ ~IsNull(S.comparaison.cmp) THEN renderComparisonTable(S)
  ELSE S

resetTableAndStatus(S) == [S EXCEPT !.thead = <<>>, !.boxes = <<>>, !.status = ""]

\* The body of the mode radio's change listener.
modeChanged(S, selectedMode) ==
  IF selectedMode = S.mode THEN S
  ELSE LET T == resetTableAndStatus([S EXCEPT !.mode = selectedMode])
       IN  IF selectedMode = "analyse" /\ ~IsNull(T.analyse) THEN renderAnalyseTable(T)
           ELSE IF selectedMode = "comparaison" /\ ~IsNull(T.comparaison.cmp)
                THEN renderComparisonTable(T)
           ELSE T

currentHeaders(S) ==
  IF S.mode = "analyse" /\ ~IsNull(S.analyse) THEN S.analyse.headers
  ELSE IF S.mode = "comparaison" /\ ~IsNull(S.comparaison.cmp) THEN S.comparaison.cmp.headers
  ELSE <<>>

neverEmpty(columns) == FALSE

\* if (state.selectedColumns.size === 0)
noneSelected(columns) == Cardinality(columns) = 0

updateSelectedColumns(S, header, checked) ==
  LET toggled == IF checked THEN S.selectedColumns \cup {header}
                 ELSE S.selectedColumns \ {header}
      T == IF noneSelected(toggled)
           THEN renderColumnCheckboxes(
                  [S EXCEPT !.selectedColumns = newSet(currentHeaders(S)),
                            !.status = "reset"],
                  currentHeaders(S))
           ELSE [S EXCEPT !.selectedColumns = toggled]
  IN  refreshTable(T)

-----------------------------------------------------------------------------
(* Separator detection applied to bounded texts.                           *)

\* The text starts with up to MaxPad copies of one padding line ...
MaxPad == 5
\* ... followed by up to MaxTail lines drawn from TailLines.
MaxTail == 2

PadLines == { <<>>, <<" ">>, <<"a", ";", "b">> }

TailLines ==
  { <<>>, <<" ">>, <<"\t">>,
    <<"a", ",", "b">>,
    <<"a", ";", "b", ",", "c">>,
    <<"d", ";", "e", ",", "f">>,
    <<"x", "|", "y", "|", "z", "\r">> }

SeqsUpTo(S, n) == UNION { [1..k -> S] : k \in 0..n }

DetectTexts ==
  { join([i \in 1..n |-> pad] \o tail, <<"\n">>) :
      pad \in PadLines, n \in 0..MaxPad, tail \in SeqsUpTo(TailLines, MaxTail) }

DetectInit ==
  /\ StateInit
  /\ build = AppJs
  /\ call \in { [fn |-> "detectCSVSeparator", text |-> t] : t \in DetectTexts }
  /\ ret = <<>>
  /\ pc = "call"

DetectCall ==
  /\ pc = "call"
  /\ call.fn = "detectCSVSeparator"
  /\ ret' = detectCSVSeparator(call.text)
  /\ pc' = "done"
  /\ UNCHANGED <<stateVars, call>>

DetectNext == DetectCall

SpecDetect == DetectInit /\ [][DetectNext]_vars

-----------------------------------------------------------------------------
(* filterRowsByKeywords applied to bounded rows, headers and filter state. *)

\* At most MaxKeywords keywords in state.filters.keywords.
MaxKeywords == 2
\* At most MaxRows rows in the rows argument.
MaxRows == 2

Col1 == <<"C", "o", "l", "1">>
Col2 == <<"C", "o", "l", "2">>
Col3 == <<"C", "o", "l", "3">>
Col4 == <<"C", "o", "l", "4">>

KwTest == <<"t", "e", "s", "t">>
KwTe == <<"T", "e">>
KwObj == <<"o", "b", "j">>

TxtTestEnMajuscule ==
  <<"T", "e", "s", "t", " ", "e", "n", " ", "m", "a", "j", "u", "s", "c", "u", "l", "e">>
TxtUneValeur == <<"U", "n", "e", " ", "v", "a", "l", "e", "u", "r">>
TxtAutre == <<"a", "u", "t", "r", "e">>
TxtLatest == <<"l", "a", "t", "e", "s", "t">>

FilterKeywords == { KwTest, KwTe, KwObj, <<>> }

FilterRows ==
  { <<[k |-> Col1, v |-> Str(TxtUneValeur)], [k |-> Col2, v |-> Str(TxtAutre)]>>,
    <<[k |-> Col1, v |-> Str(TxtTestEnMajuscule)], [k |-> Col2, v |-> Str(TxtAutre)]>>,
    <<[k |-> Col1, v |-> Null], [k |-> Col2, v |-> Str(TxtLatest)]>> }

\* The headers of a dataset: those of the rows, fewer or more, and those of a
\* text whose third column is named __proto__, for which parseCSV gives the
\* rows no cell.
FilterHeaders == { <<Col1, Col2>>, <<Col2, Col1, Col3>>, <<Col1, Col2, KeyProto>> }

FilterSelections == (SUBSET {Col1, Col2}) \cup { {Col1, Col4}, {KeyProto} }

FilterInit ==
  /\ NothingLoaded
  /\ build = AppJs
  /\ mode \in {"analyse", "comparaison"}
  /\ comparaison = [ref |-> Null, cmp |-> Null, keywords |-> <<>>]
  /\ selectedColumns \in FilterSelections
  /\ caseSensitive \in BOOLEAN
  /\ filters \in { [keywords |-> ks] : ks \in SeqsUpTo(FilterKeywords, MaxKeywords) }
  /\ call \in { [fn |-> "filterRowsByKeywords", rows |-> rs, headers |-> hs] :
                  rs \in SeqsUpTo(FilterRows, MaxRows), hs \in FilterHeaders }
  /\ ret = <<>>
  /\ pc = "call"

FilterCall ==
  /\ pc = "call"
  /\ call.fn = "filterRowsByKeywords"
  /\ ret' = filterRowsByKeywords(call.rows, call.headers)
  /\ pc' = "done"
  /\ UNCHANGED <<stateVars, call>>

FilterNext == FilterCall

SpecFilter == FilterInit /\ [][FilterNext]_vars

-----------------------------------------------------------------------------
(* Claims about filterRowsByKeywords, checked under SpecFilter.            *)

Range(seq) == { seq[i] : i \in 1..Len(seq) }

\* The text compared: as it is when case matters, lower-cased otherwise.
Fold(text) == IF caseSensitive THEN text ELSE toLowerCase(text)

\* needle occurs in hay, character by character once both are folded.
Contains(hay, needle) ==
  \E off \in 0..(Len(hay) - Len(needle)) :
    \A j \in 1..Len(needle) : Fold(hay)[off + j] = Fold(needle)[j]

\* Keyword number k occurs in what reading row under header h gives.
Found(row, h, k) ==
  /\ ~IsNull(Get(row, h))
  /\ filters.keywords[k] # <<>>
  /\ Contains(String(Get(row, h)), filters.keywords[k])

\* The row mapping holds a cell under header h.
HasCell(row, h) == \E p \in 1..Len(row) : row[p].k = h

\* Keyword number k occurs in the text of the cell of row under header h.
Occurs(row, h, k) ==
  /\ HasCell(row, h)
  /\ ~IsNull(GetOwn(row, h))
  /\ filters.keywords[k] # <<>>
  /\ Contains(String(GetOwn(row, h)), filters.keywords[k])

\* Keyword number k is to be reported for row under header h.
Hit(row, h, k) ==
  /\ h \in Range(call.headers) \cap selectedColumns
  /\ Found(row, h, k)

HasHit(row) ==
  \E h \in Range(call.headers) : \E k \in 1..Len(filters.keywords) : Hit(row, h, k)

\* The input rows (by position) the returned sequence refers to.
KeptRefs == { ret[j].ref : j \in 1..Len(ret) }

FilterDone == pc = "done" /\ call.fn = "filterRowsByKeywords"

\* C1: in comparison (match-required) mode a row is included if and only if
\* it produced at least one match record, whether or not the keyword list is
\* empty; with an empty keyword list no row is returned.
C1_MatchRequired ==
  (FilterDone /\ mode = "comparaison") =>
    /\ KeptRefs = { i \in 1..Len(call.rows) : HasHit(call.rows[i]) }
    /\ \A j \in 1..Len(ret) : ret[j].matches # <<>>
    /\ filters.keywords = <<>> => ret = <<>>

\* C1 witness: comparison mode, two rows given, one kept and one dropped.
C1_Witness ==
  /\ FilterDone /\ mode = "comparaison"
  /\ Len(call.rows) = 2 /\ Len(ret) = 1

\* C2: in analysis (show-all-on-empty) mode, an empty keyword list returns
\* every input row in order with matches = [], whatever the selected columns
\* and the case flag; a non-empty keyword list keeps a row only if it
\* produced at least one match.
C2_ShowAllOnEmpty ==
  (FilterDone /\ mode = "analyse") =>
    /\ filters.keywords = <<>> =>
         /\ Len(ret) = Len(call.rows)
         /\ \A i \in 1..Len(ret) :
              /\ ret[i].ref = i
              /\ ret[i].row = call.rows[i]
              /\ ret[i].matches = <<>>
    /\ filters.keywords # <<>> =>
         /\ \A j \in 1..Len(ret) : ret[j].matches # <<>> /\ HasHit(call.rows[ret[j].ref])

\* C2 witness: analysis mode, no keyword, no column selected, case flag set,
\* and both input rows returned.
C2_Witness ==
  /\ FilterDone /\ mode = "analyse"
  /\ filters.keywords = <<>> /\ selectedColumns = {} /\ caseSensitive
  /\ Len(call.rows) = 2 /\ Len(ret) = 2

\* C3: for every row, considered column and non-empty keyword, a match record
\* is emitted exactly when the keyword is a substring of the cell text,
\* compared exactly when caseSensitive and lower-cased on both sides
\* otherwise; the record carries the keyword as stored in the filter state.
C3_SubstringMatch ==
  FilterDone =>
    /\ \A j \in 1..Len(ret) :
         \A h \in Range(call.headers) \cap selectedColumns :
           \A k \in 1..Len(filters.keywords) :
             ([keyword |-> filters.keywords[k], header |-> h] \in Range(ret[j].matches))
               <=> \E k2 \in 1..Len(filters.keywords) :
                     /\ filters.keywords[k2] = filters.keywords[k]
                     /\ Occurs(ret[j].row, h, k2)
    /\ \A i \in 1..Len(call.rows) :
         (\E h \in Range(call.headers) \cap selectedColumns :
            \E k \in 1..Len(filters.keywords) : Occurs(call.rows[i], h, k))
           => i \in KeptRefs

\* C4: every match record's header belongs to both the headers argument and
\* state.selectedColumns, and a row whose keyword occurrences lie only in
\* unselected columns produces no match.
C4_OnlySelectedColumns ==
  FilterDone =>
    /\ \A j \in 1..Len(ret) : \A m \in Range(ret[j].matches) :
         m.header \in Range(call.headers) /\ m.header \in selectedColumns
    /\ \A j \in 1..Len(ret) :
         (\A h \in Range(call.headers) \cap selectedColumns :
            \A k \in 1..Len(filters.keywords) : ~Occurs(ret[j].row, h, k))
           => ret[j].matches = <<>>
    /\ filters.keywords # <<>> =>
         \A i \in 1..Len(call.rows) :
           (\A h \in Range(call.headers) \cap selectedColumns :
              \A k \in 1..Len(filters.keywords) : ~Occurs(call.rows[i], h, k))
             => i \notin KeptRefs

\* C5: the output is an order-preserving subsequence of the input rows: each
\* filtered row refers to one input row, in increasing input position, none
\* twice, and equal input rows are kept or dropped alike (no deduplication).
C5_OrderedSubsequence ==
  FilterDone =>
    /\ \A j \in 1..Len(ret) :
         /\ ret[j].ref \in 1..Len(call.rows)
         /\ ret[j].row = call.rows[ret[j].ref]
    /\ \A j1, j2 \in 1..Len(ret) : j1 < j2 => ret[j1].ref < ret[j2].ref
    /\ \A i1, i2 \in 1..Len(call.rows) :
         call.rows[i1] = call.rows[i2] => (i1 \in KeptRefs <=> i2 \in KeptRefs)

\* C5 witness: two equal input rows that both match are both returned.
C5_Witness ==
  /\ FilterDone /\ filters.keywords # <<>>
  /\ Len(call.rows) >= 2 /\ call.rows[1] = call.rows[2]
  /\ {1, 2} \subseteq KeptRefs
  /\ ret[1].matches # <<>>

-----------------------------------------------------------------------------
(* Keyword edits: handleKeywordInputChange applied to bounded texts, in    *)
(* either mode, with bounded reference keyword lists and no file loaded.   *)

Alpha == <<"A", "l", "p", "h", "a">>
Beta == <<"B", "e", "t", "a">>

KeywordTexts ==
  { <<>>,
    <<" ", " ", " ">>,
    <<",">>,
    <<" ", ",", "\t", ",", " ">>,
    Alpha,
    Alpha \o <<",", " ">> \o Beta,
    <<" ", "x", " ", ",", "y", ",">>,
    <<"x", " ", "y">>,
    <<"T", "e", ",", ",", "s", "t", " ">> }

ReferenceKeywordLists ==
  { <<>>, <<Alpha, Beta>>, << <<"a", ",", "b">> >>, << <<"x">>, <<"y", " ", "z">> >> }

KeywordInit ==
  /\ NothingLoaded
  /\ build = AppJs
  /\ mode \in {"analyse", "comparaison"}
  /\ comparaison \in { [ref |-> Null, cmp |-> Null, keywords |-> ks] :
                         ks \in ReferenceKeywordLists }
  /\ selectedColumns = {}
  /\ caseSensitive = FALSE
  /\ filters = [keywords |-> <<>>]
  /\ call = [fn |-> "none"]
  /\ ret = <<>>
  /\ pc = "call"

\* The keyword box's input event, the text typed being one of texts:
\* handleKeywordInputChange, the box rewritten with the returned text, then
\* refreshTable.
KeywordInputFrom(texts) ==
  \E rawValue \in texts :
    /\ call' = [fn |-> "handleKeywordInputChange", rawValue |-> rawValue]
    /\ Becomes(refreshTable(
         [Cur EXCEPT !.filters.keywords = handleKeywordInputChange(rawValue).keywords]))
    /\ ret' = handleKeywordInputChange(rawValue).returned
    /\ pc' = "done"
    /\ UNCHANGED <<pending, imports, lastSelected>>

KeywordInput == KeywordInputFrom(KeywordTexts)

\* The mode radio's change event.
ModeChange ==
  \E selectedMode \in {"analyse", "comparaison"} :
    /\ selectedMode # mode
    /\ Becomes(modeChanged(Cur, selectedMode))
    /\ call' = [fn |-> "modeChange", selectedMode |-> selectedMode]
    /\ ret' = <<>>
    /\ pc' = "call"
    /\ UNCHANGED <<pending, imports, lastSelected>>

KeywordNext == KeywordInput \/ ModeChange

SpecKeyword == KeywordInit /\ [][KeywordNext]_vars

-----------------------------------------------------------------------------
(* The keyword text written back by the reconciliation rule, parsed again: *)
(* extractKeywordsFromReference on bounded reference datasets, then        *)
(* parseKeywords on the extracted list joined with ", ".                   *)

\* At most MaxRefRows rows in the reference dataset.
MaxRefRows == 2

HdrA == <<"A">>
HdrB == <<"B">>

ReferenceCells ==
  { Str(<<"x">>), Str(<<" ", "y", " ">>), Str(<<"a", ",", "b">>), Str(<<>>) }

ReferenceRows ==
  { rowFrom(<<HdrA, HdrB>>, <<a, b>>, 1, <<>>) : a \in ReferenceCells, b \in ReferenceCells }

ReferenceDatasets ==
  { [headers |-> <<HdrA, HdrB>>, rows |-> rs] : rs \in SeqsUpTo(ReferenceRows, MaxRefRows) }

RoundTripInit ==
  /\ StateInit
  /\ build = AppJs
  /\ call \in { [fn |-> "extractKeywordsFromReference", refData |-> d] :
                  d \in ReferenceDatasets }
  /\ ret = <<>>
  /\ pc = "call"

ExtractCall ==
  /\ pc = "call"
  /\ call.fn = "extractKeywordsFromReference"
  /\ ret' = extractKeywordsFromReference(call.refData)
  /\ pc' = "extracted"
  /\ UNCHANGED <<stateVars, call>>

\* parseKeywords(K.join(', ')) for the extracted list K.
ReparseCall ==
  /\ pc = "extracted"
  /\ call' = [fn |-> "parseKeywords", keywords |-> ret,
              raw |-> join(ret, <<",", " ">>)]
  /\ ret' = parseKeywords(join(ret, <<",", " ">>))
  /\ pc' = "done"
  /\ UNCHANGED stateVars

RoundTripNext == ExtractCall \/ ReparseCall

SpecRoundTrip == RoundTripInit /\ [][RoundTripNext]_vars

-----------------------------------------------------------------------------
(* Claims about the keyword text, checked under SpecKeyword and            *)
(* SpecRoundTrip.                                                          *)

KeywordDone == pc = "done" /\ call.fn = "handleKeywordInputChange"

\* The text holds nothing but white space and commas: it parses to no keyword.
BlankOrCommas(raw) == \A i \in 1..Len(raw) : IsWhiteSpace(raw[i]) \/ raw[i] = ","

\* C6: when the typed text parses to no keyword while the mode is comparison
\* and the reference keyword list is non-empty, the effective keyword list
\* becomes the reference list and the returned text is that list joined with
\* ", "; in every other case the effective list is exactly the parsed list,
\* the empty list included, and the returned text is the raw input.
C6_KeywordReconciliation ==
  KeywordDone =>
    IF /\ BlankOrCommas(call.rawValue)
       /\ mode = "comparaison"
       /\ comparaison.keywords # <<>>
    THEN /\ filters.keywords = comparaison.keywords
         /\ ret = join(comparaison.keywords, <<",", " ">>)
         /\ comparaison.keywords = <<Alpha, Beta>> =>
              ret = Alpha \o <<",", " ">> \o Beta
    ELSE /\ filters.keywords = parseKeywords(call.rawValue)
         /\ BlankOrCommas(call.rawValue) <=> filters.keywords = <<>>
         /\ ret = call.rawValue

\* C6 witness: comparison mode, reference keywords ["Alpha", "Beta"], white
\* space typed: the list falls back on the reference and "Alpha, Beta" is
\* returned.
C6_Witness ==
  /\ KeywordDone /\ mode = "comparaison"
  /\ call.rawValue = <<" ", " ", " ">>
  /\ comparaison.keywords = <<Alpha, Beta>>
  /\ filters.keywords = <<Alpha, Beta>>
  /\ ret = Alpha \o <<",", " ">> \o Beta

\* C7: for every keyword list K produced by extractKeywordsFromReference,
\* keywords holding a comma included, parseKeywords(K.join(', ')) equals K.
C7_JoinParseRoundTrip ==
  (pc = "done" /\ call.fn = "parseKeywords") => ret = call.keywords

-----------------------------------------------------------------------------
(* Claims about detectCSVSeparator, checked under SpecDetect.              *)

DetectDone == pc = "done" /\ call.fn = "detectCSVSeparator"

\* The number of times sep occurs in line.
Occurrences(line, sep) == Cardinality({ i \in 1..Len(line) : line[i] = sep })

\* The summed split-segment count of sep over lines: one segment more than
\* the separator occurs, per line.
RECURSIVE SegmentSum(_, _)
SegmentSum(lines, sep) ==
  IF lines = <<>> THEN 0
  ELSE Occurrences(Head(lines), sep) + 1 + SegmentSum(Tail(lines), sep)

\* sep is the earliest candidate, in priority order, of greatest sum over lines.
EarliestMax(lines, sep) ==
  \E i \in 1..Len(separators) :
    /\ separators[i] = sep
    /\ \A j \in 1..Len(separators) :
         /\ SegmentSum(lines, separators[j]) <= SegmentSum(lines, sep)
         /\ j < i => SegmentSum(lines, separators[j]) < SegmentSum(lines, sep)

ExampleText == <<"a", ";", "b", ",", "c", "\n", "d", ";", "e", ",", "f">>

\* C8: detectCSVSeparator returns the candidate among ; , tab | whose summed
\* split-segment count over the sampled lines is greatest, the earliest one in
\* that priority order on a tie; for "a;b,c\nd;e,f" it returns ";".
C8_EarliestGreatestSum ==
  DetectDone =>
    /\ EarliestMax(sampleLines(call.text), ret)
    /\ call.text = ExampleText => ret = ";"

\* C8 witness: detection has run on a text where the returned candidate ties
\* at the greatest sum with a later candidate and beats an earlier one.
C8_Witness ==
  /\ DetectDone
  /\ ret = ","
  /\ LET lines == sampleLines(call.text)
     IN  /\ SegmentSum(lines, "\t") = SegmentSum(lines, ",")
         /\ SegmentSum(lines, ";") < SegmentSum(lines, ",")

\* Every line of the text is empty after trimming.
NoNonBlankLine(text) ==
  \A i \in 1..Len(splitLines(text, <<>>)) : trim(splitLines(text, <<>>)[i]) = <<>>

\* C9: when the text has no non-blank line, detectCSVSeparator returns the
\* default separator ",".
C9_DefaultComma ==
  (DetectDone /\ NoNonBlankLine(call.text)) => ret = ","

\* The first SampleSize lines that are not empty after trimming.
NonBlankSample(text) ==
  LET nonBlank == SelectSeq(splitLines(text, <<>>), LAMBDA l : trim(l) # <<>>)
  IN  SubSeq(nonBlank, 1, Min(SampleSize, Len(nonBlank)))

\* C10: the score is computed over exactly the first 5 lines that are not
\* empty after trimming, so white-space-only lines add to no candidate's score
\* and take no sample slot.
C10_ScoreOverNonBlankLines ==
  DetectDone => EarliestMax(NonBlankSample(call.text), ret)

-----------------------------------------------------------------------------
(* splitCSVLine                                                            *)

\* if (inQuotes && nextChar === '"'): the doubled-quote escape.
isEscapedQuote(inQuotes, nextChar) == inQuotes /\ nextChar = "\""

isBoundaryAnywhere(char, separator, inQuotes) == char = separator

\* else if (char === separator && !inQuotes)
isBoundary(char, separator, inQuotes) == char = separator /\ ~inQuotes

flushRaw(current) == current

\* result.push(current.trim())
flush(current) == trim(current)

\* The for loop from index i on (i counts from 1), then the final push.
\* line[i + 1] past the end of the line is undefined: no character.
RECURSIVE scanLine(_, _, _, _, _, _)
scanLine(line, separator, i, current, inQuotes, result) ==
  IF i > Len(line) THEN [result |-> Append(result, flush(current)), inQuotes |-> inQuotes]
  ELSE LET char == line[i]
           nextChar == IF i + 1 <= Len(line) THEN line[i + 1] ELSE "undefined"
       IN  IF char = "\""
           THEN IF isEscapedQuote(inQuotes, nextChar)
                THEN scanLine(line, separator, i + 2, Append(current, "\""), inQuotes, result)
                ELSE scanLine(line, separator, i + 1, current, ~inQuotes, result)
           ELSE IF isBoundary(char, separator, inQuotes)
                THEN scanLine(line, separator, i + 1, <<>>, inQuotes,
                              Append(result, flush(current)))
                ELSE scanLine(line, separator, i + 1, Append(current, char), inQuotes, result)

splitCSVLine(line, separator) ==
  scanLine(line, separator, 1, <<>>, FALSE, <<>>).result

-----------------------------------------------------------------------------
(* splitCSVLine applied to bounded lines.                                  *)

\* A line holds at most MaxLineLen characters drawn from LineChars.
MaxLineLen == 5

LineChars == { "a", "\"", ";", " ", "\t" }

TxtQuotedAlphaBeta ==
  <<"\"", "A", "l", "p", "h", "a", ";", "B", "e", "t", "a", "\"", ";", "4", "2">>

SplitLinesIn == SeqsUpTo(LineChars, MaxLineLen) \cup { TxtQuotedAlphaBeta }

SplitInit ==
  /\ StateInit
  /\ build = AppJs
  /\ call \in { [fn |-> "splitCSVLine", line |-> l, separator |-> sep] :
                  l \in SplitLinesIn, sep \in {";", "\t"} }
  /\ ret = <<>>
  /\ pc = "call"

SplitCall ==
  /\ pc = "call"
  /\ call.fn = "splitCSVLine"
  /\ ret' = splitCSVLine(call.line, call.separator)
  /\ pc' = "done"
  /\ UNCHANGED <<stateVars, call>>

SplitNext == SplitCall

SpecSplit == SplitInit /\ [][SplitNext]_vars

-----------------------------------------------------------------------------
(* Claims about splitCSVLine, checked under SpecSplit.                     *)

SplitDone == pc = "done" /\ call.fn = "splitCSVLine"

\* What the scan makes of each position of the line, read left to right with
\* the quote flag q: "lit" (a character of the field, c), "cut" (a separator
\* outside quotes), "open" / "close" (a quote that switches the flag) or
\* "skip" (the second quote of a doubled quote).
RECURSIVE Marks(_, _, _, _)
Marks(line, sep, p, q) ==
  IF p > Len(line) THEN <<>>
  ELSE IF line[p] = "\"" /\ q /\ p < Len(line) /\ line[p + 1] = "\""
       THEN <<[m |-> "lit", c |-> "\""], [m |-> "skip", c |-> "\""]>>
            \o Marks(line, sep, p + 2, q)
  ELSE IF line[p] = "\""
       THEN <<[m |-> IF q THEN "close" ELSE "open", c |-> "\""]>>
            \o Marks(line, sep, p + 1, ~q)
  ELSE IF line[p] = sep /\ ~q
       THEN <<[m |-> "cut", c |-> sep]>> \o Marks(line, sep, p + 1, q)
  ELSE <<[m |-> "lit", c |-> line[p]]>> \o Marks(line, sep, p + 1, q)

CallMarks == Marks(call.line, call.separator, 1, FALSE)

\* The positions of the separators seen outside quotes.
Cuts == { p \in 1..Len(CallMarks) : CallMarks[p].m = "cut" }

\* The characters kept between positions lo and hi.
RECURSIVE Lits(_, _, _)
Lits(marks, lo, hi) ==
  IF lo > hi THEN <<>>
  ELSE (IF marks[lo].m = "lit" THEN <<marks[lo].c>> ELSE <<>>) \o Lits(marks, lo + 1, hi)

\* Field number n (from 1) lies between cut n - 1 and cut n.
FieldStart(n) ==
  IF n = 1 THEN 1
  ELSE 1 + CHOOSE p \in Cuts : Cardinality({ c \in Cuts : c < p }) = n - 2

FieldEnd(n) ==
  IF n = Cardinality(Cuts) + 1 THEN Len(CallMarks)
  ELSE (CHOOSE p \in Cuts : Cardinality({ c \in Cuts : c < p }) = n - 1) - 1

CountOf(s, c) == Cardinality({ p \in 1..Len(s) : s[p] = c })

IsTrimmed(s) == s = <<>> \/ (~IsWhiteSpace(s[1]) /\ ~IsWhiteSpace(s[Len(s)]))

\* C11: one left-to-right scan with an inQuotes flag: a separator ends a field
\* only outside quotes, a quote switches the flag and is not emitted except
\* that a doubled quote inside quotes emits one quote, other characters are
\* appended; there is one field more than separators outside quotes, every
\* field is trimmed, and '"Alpha;Beta";42' with ';' gives ["Alpha;Beta", "42"].
C11_QuoteAwareSplit ==
  SplitDone =>
    /\ Len(ret) = Cardinality(Cuts) + 1
    /\ \A n \in 1..Len(ret) :
         /\ IsTrimmed(ret[n])
         /\ ret[n] = trim(Lits(CallMarks, FieldStart(n), FieldEnd(n)))
    /\ (call.line = TxtQuotedAlphaBeta /\ call.separator = ";") =>
         ret = << <<"A", "l", "p", "h", "a", ";", "B", "e", "t", "a">>, <<"4", "2">> >>

\* C11 witness: a line with a separator inside quotes, a doubled quote inside
\* quotes and a separator outside quotes has been split in two fields.
C11_Witness ==
  /\ SplitDone
  /\ Len(ret) = 2
  /\ \E p \in 1..Len(CallMarks) : CallMarks[p].m = "skip"
  /\ \E p \in 1..Len(CallMarks) : CallMarks[p].m = "lit" /\ CallMarks[p].c = call.separator
  /\ \E n \in 1..Len(ret) : CountOf(ret[n], call.separator) > 0

\* The scan reaches the end of the line inside quotes: one more quote opened
\* than closed.
EndsInQuotes ==
  Cardinality({ p \in 1..Len(CallMarks) : CallMarks[p].m = "open" })
    > Cardinality({ p \in 1..Len(CallMarks) : CallMarks[p].m = "close" })

\* The text accumulated for the last field when the end of the line is reached.
LastAccumulated ==
  Lits(CallMarks, FieldStart(Cardinality(Cuts) + 1), Len(CallMarks))

\* C12 as stated: on a line that ends inside quotes the last field holds the
\* accumulated text with every separator character met after the opening quote.
C12_FlushedAsIs ==
  (SplitDone /\ EndsInQuotes) =>
    /\ Len(ret) >= 1
    /\ CountOf(ret[Len(ret)], call.separator) = CountOf(LastAccumulated, call.separator)

\* C12 amended: on a line that ends inside quotes the split still returns, and
\* its last field is the accumulated text after trimming: separator characters
\* met after the opening quote never end a field and stay in the text, except
\* the white-space ones (tab) that the trim removes at either end.
C12_UnterminatedQuoteFlushedTrimmed ==
  (SplitDone /\ EndsInQuotes) =>
    /\ Len(ret) = Cardinality(Cuts) + 1
    /\ ret[Len(ret)] = trim(LastAccumulated)
    /\ call.separator = ";" =>
         CountOf(ret[Len(ret)], ";") = CountOf(LastAccumulated, ";")

\* C12 witness: a line ended inside quotes with a separator after the opening
\* quote, and the flushed field is the trimmed text, shorter than accumulated.
C12_Witness ==
  /\ SplitDone
  /\ EndsInQuotes
  /\ CountOf(LastAccumulated, call.separator) > 0
  /\ ret[Len(ret)] # LastAccumulated
  /\ ret[Len(ret)] # <<>>

-----------------------------------------------------------------------------
(* parseCSV, parseXLSX (src/app.js) and importXlsxFile                     *)
(* (src/unnamed/part_000)                                                  *)

\* The template literal `Colonne ${index + 1}`, n being index + 1.
Colonne(n) == <<"C", "o", "l", "o", "n", "n", "e", " ">> \o decimal(n)

\* (h, index) => h ? h.trim() : `Colonne ${index + 1}`, index counting from 0.
csvHeader(h, index) == IF h # <<>> THEN trim(h) ELSE Colonne(index + 1)

trimmedLinesAll(text) ==
  LET lines == splitLines(text, <<>>)
  IN  [i \in 1..Len(lines) |-> trim(lines[i])]

\* text.split(/\r?\n/).map((line) => line.trim()).filter((line) => line.length > 0)
trimmedLines(text) ==
  LET lines == splitLines(text, <<>>)
  IN  SelectSeq([i \in 1..Len(lines) |-> trim(lines[i])], LAMBDA line : Len(line) > 0)

\* parts[index] != null ? parts[index] : '', index counting from 0.
partOrEmpty(parts, index) ==
  IF index < Len(parts) THEN Str(parts[index + 1]) ELSE Str(<<>>)

parseCSV(text) ==
  LET separator == detectCSVSeparator(text)
      lines == trimmedLines(text)
  IN  IF Len(lines) = 0 THEN [headers |-> <<>>, rows |-> <<>>]
      ELSE LET first == splitCSVLine(lines[1], separator)
               headers == [i \in 1..Len(first) |-> csvHeader(first[i], i - 1)]
               rowOf(i) ==
                 LET parts == splitCSVLine(lines[i], separator)
                 IN  rowFrom(headers,
                             [j \in 1..Len(headers) |-> partOrEmpty(parts, j - 1)],
                             1, <<>>)
           IN  [headers |-> headers,
                rows |-> [i \in 1..(Len(lines) - 1) |-> rowOf(i + 1)]]

\* A cell matrix (the sheet as an array of arrays) is a sequence of rows; a row
\* is Null when absent, else the array of its cells; a cell is Str, Num, Null
\* or Hole.
Cells(cells) == [cells |-> cells]

\* A hole of a row array: sheet_to_json sets no element for an empty cell, so
\* an empty cell that stands before a filled one is a hole of the array.
Hole == [hole |-> TRUE]
IsHole(v) == "hole" \in DOMAIN v

\* rowArray[colIndex] != null ? rowArray[colIndex] : '', a hole and a position
\* past the end of the array both reading as undefined.
cellOrEmpty(rowArray, colIndex) ==
  IF /\ colIndex < Len(rowArray.cells)
     /\ ~IsHole(rowArray.cells[colIndex + 1])
     /\ ~IsNull(rowArray.cells[colIndex + 1])
  THEN rowArray.cells[colIndex + 1]
  ELSE Str(<<>>)

\* JavaScript truthiness of a cell.
truthy(v) ==
  IF IsNull(v) THEN FALSE
  ELSE IF IsNum(v) THEN v.num # 0
  ELSE v.str # <<>>

\* (h, i) => (h && String(h).trim()) || `Colonne ${i + 1}`
xlsxHeader(h, i) ==
  IF truthy(h) /\ trim(String(h)) # <<>> THEN trim(String(h)) ELSE Colonne(i + 1)

\* The indices i of the loop that pass if (!rowArray) continue.
rowsPresent(json) ==
  SelectSeq([i \in 1..(Len(json) - 1) |-> i + 1], LAMBDA i : ~IsNull(json[i]))

\* parseXLSX of src/app.js from the matrix sheet_to_json returned; map calls
\* its callback on the elements of the header row and leaves its holes as
\* holes.
parseXLSX(json) ==
  LET first == IF Len(json) = 0 \/ IsNull(json[1]) THEN <<>> ELSE json[1].cells
      headers == [i \in 1..Len(first) |->
                    IF IsHole(first[i]) THEN HeaderHole ELSE xlsxHeader(first[i], i - 1)]
      kept == rowsPresent(json)
  IN  [headers |-> headers,
       rows |-> [n \in 1..Len(kept) |->
                  rowFrom(headers,
                          [j \in 1..Len(headers) |-> cellOrEmpty(json[kept[n]], j - 1)],
                          1, <<>>)]]

\* (h, i) => h != null && String(h).trim() !== '' ? String(h).trim() : `Colonne ${i + 1}`
importHeader(h, i) ==
  IF ~IsNull(h) /\ trim(String(h)) # <<>> THEN trim(String(h)) ELSE Colonne(i + 1)

\* const rowArray = data[i] || []
rowOrEmpty(rowArray) == IF IsNull(rowArray) THEN Cells(<<>>) ELSE rowArray

\* importXlsxFile of src/unnamed/part_000 from the matrix sheet_to_json
\* returned; the first row of a non-empty matrix is present, and map leaves
\* the holes of the header row as holes.
importXlsxFile(data) ==
  IF Len(data) = 0 THEN [headers |-> <<>>, rows |-> <<>>]
  ELSE LET rawHeaders == data[1].cells
           headers == [i \in 1..Len(rawHeaders) |->
                         IF IsHole(rawHeaders[i]) THEN HeaderHole
                         ELSE importHeader(rawHeaders[i], i - 1)]
       IN  [headers |-> headers,
            rows |-> [n \in 1..(Len(data) - 1) |->
                       rowFrom(headers,
                               [j \in 1..Len(headers) |->
                                  cellOrEmpty(rowOrEmpty(data[n + 1]), j - 1)],
                               1, <<>>)]]

-----------------------------------------------------------------------------
(* The parsers applied to bounded texts and matrices.                      *)

\* A text holds at most MaxTextLen characters drawn from TextChars.
MaxTextLen == 6

TextChars == { "A", "x", ";", " ", "\n" }

TxtCommaCRLF == <<"A", ",", ",", "\r", "\n", "x", ",", "\t", ",", "y", ",", "z", "\r", "\n">>

TxtBlankCRLF == <<" ", "\r", "\n", "\t", "\r", "\n">>

TxtEmptyThenNom == <<"\"", "\"", ";", "N", "o", "m", "\n", "1", ";", "2">>

\* A column named __proto__ before a column named A.
TxtProtoThenA == <<"_", "_", "p", "r", "o", "t", "o", "_", "_", ";", "A", "\n", "x", ";", "y">>

\* Headers and fields wrapped in white space other than the space: a no-break
\* space, a vertical tab, an em space, a form feed, a byte order mark.
TxtWrapped ==
  <<"U+00A0", "A", "", ";", "U+2003", "\f", "\n", "U+FEFF", "x", ";", "y", "U+00A0">>

ParseTexts ==
  SeqsUpTo(TextChars, MaxTextLen)
    \cup { TxtCommaCRLF, TxtBlankCRLF, TxtEmptyThenNom, TxtProtoThenA, TxtWrapped }

\* A matrix holds a header row and at most MaxBodyRows body rows.
MaxBodyRows == 2

HeaderRowsIn ==
  { Cells(<<>>),
    Cells(<<Str(<<>>), Str(<<"N", "o", "m">>)>>),
    Cells(<<Hole, Str(<<"N", "o", "m">>)>>),
    Cells(<<Str(<<" ">>), Null>>),
    Cells(<<Str(<<" ", "A", " ">>), Str(<<"B">>)>>),
    Cells(<<Num(0), Str(<<"A">>)>>),
    Cells(<<Num(0 - 25), Str(<<"A">>)>>),
    Cells(<<Num(7), Str(<<"A">>), Str(<<"A">>)>>) }

BodyRowsIn ==
  { Null,
    Cells(<<>>),
    Cells(<<Str(<<"x">>)>>),
    Cells(<<Null, Str(<<"y">>)>>),
    Cells(<<Hole, Str(<<"y">>)>>),
    Cells(<<Num(0), Str(<<"y">>), Str(<<"z">>), Str(<<"w">>)>>) }

Matrices ==
  { <<>> } \cup
  { <<h>> \o body : h \in HeaderRowsIn, body \in SeqsUpTo(BodyRowsIn, MaxBodyRows) }

\* parseCSV is in both scripts, parseXLSX in src/app.js only, importXlsxFile
\* in src/unnamed/part_000 only.
ParseInit ==
  /\ StateInit
  /\ call \in { [fn |-> "parseCSV", text |-> t] : t \in ParseTexts }
         \cup { [fn |-> f, json |-> m] : f \in {"parseXLSX", "importXlsxFile"}, m \in Matrices }
  /\ build = IF call.fn = "importXlsxFile" THEN Part000 ELSE AppJs
  /\ ret = <<>>
  /\ pc = "call"

ParseCSVCall ==
  /\ pc = "call"
  /\ call.fn = "parseCSV"
  /\ ret' = parseCSV(call.text)
  /\ pc' = "done"
  /\ UNCHANGED <<stateVars, call>>

ParseXLSXCall ==
  /\ pc = "call"
  /\ call.fn = "parseXLSX"
  /\ ret' = parseXLSX(call.json)
  /\ pc' = "done"
  /\ UNCHANGED <<stateVars, call>>

ImportXlsxCall ==
  /\ pc = "call"
  /\ call.fn = "importXlsxFile"
  /\ ret' = importXlsxFile(call.json)
  /\ pc' = "done"
  /\ UNCHANGED <<stateVars, call>>

ParseNext == ParseCSVCall \/ ParseXLSXCall \/ ImportXlsxCall

SpecParse == ParseInit /\ [][ParseNext]_vars

-----------------------------------------------------------------------------
(* Claims about the parsers, checked under SpecParse.                      *)

ParseDone == pc = "done" /\ call.fn \in {"parseCSV", "parseXLSX", "importXlsxFile"}

\* The header tokens of the call: the fields of the first non-blank line of
\* the text, or the string forms of the cells of the first row of the matrix
\* (Null for an absent cell: null, undefined or a hole of the row).
HeaderTokens ==
  IF call.fn = "parseCSV"
  THEN LET fields == splitCSVLine(trimmedLines(call.text)[1], detectCSVSeparator(call.text))
       IN  [i \in 1..Len(fields) |-> Str(fields[i])]
  ELSE IF Len(call.json) = 0 THEN <<>>
  ELSE [i \in 1..Len(call.json[1].cells) |->
          IF IsNull(call.json[1].cells[i]) \/ IsHole(call.json[1].cells[i]) THEN Null
          ELSE Str(String(call.json[1].cells[i]))]

HasHeaderRow ==
  IF call.fn = "parseCSV" THEN trimmedLines(call.text) # <<>> ELSE TRUE

BlankToken(t) == IsNull(t) \/ trim(t.str) = <<>>

Named(prefix, n) == prefix \o decimal(n)

PrefixColumn == <<"C", "o", "l", "u", "m", "n", " ">>

\* C13 as stated: a blank header token at 0-based position i becomes
\* "Column " followed by i+1 and every non-blank header is kept trimmed.
C13_ColumnFallback ==
  (ParseDone /\ HasHeaderRow) =>
    /\ Len(ret.headers) = Len(HeaderTokens)
    /\ \A i \in 1..Len(HeaderTokens) :
         ret.headers[i] = IF BlankToken(HeaderTokens[i])
                          THEN Named(PrefixColumn, i)
                          ELSE trim(HeaderTokens[i].str)

CSVDone == pc = "done" /\ call.fn = "parseCSV"

\* The lines of the text that hold a character other than white space.
NonBlankCount ==
  LET pieces == splitChar(call.text, "\n", <<>>)
  IN  Cardinality({ i \in 1..Len(pieces) :
                      \E p \in 1..Len(pieces[i]) : ~IsWhiteSpace(pieces[i][p]) })

\* The fields of body line n (from 1) of the text.
BodyFields(n) ==
  splitCSVLine(trimmedLines(call.text)[n + 1], detectCSVSeparator(call.text))

FieldOrEmpty(fields, j) == IF j <= Len(fields) THEN Str(fields[j]) ELSE Str(<<>>)

RowKeys(row) == { row[p].k : p \in 1..Len(row) }

\* C14 as stated: every row mapping has exactly the keys in headers, the value
\* under the header at position j is field j of the body line, or the empty
\* string when the line has no such field, and there is one row per non-blank
\* line after the first.
C14_FieldAtPosition ==
  (CSVDone /\ NonBlankCount > 0) =>
    /\ Len(ret.rows) = NonBlankCount - 1
    /\ \A n \in 1..Len(ret.rows) :
         /\ RowKeys(ret.rows[n]) = { ret.headers[j] : j \in 1..Len(ret.headers) }
         /\ \A j \in 1..Len(ret.headers) :
              Get(ret.rows[n], ret.headers[j]) = FieldOrEmpty(BodyFields(n), j)

BlankText(text) == \A p \in 1..Len(text) : IsWhiteSpace(text[p])

\* C15: a text that is empty or made only of white space and line breaks is
\* parsed into the empty dataset, headers = [] and rows = [].
C15_BlankTextEmptyDataset ==
  (CSVDone /\ BlankText(call.text)) => ret = [headers |-> <<>>, rows |-> <<>>]

\* C15 witness: a text of spaces and line breaks has been parsed into the
\* empty dataset.
C15_Witness ==
  /\ CSVDone
  /\ BlankText(call.text)
  /\ \E p \in 1..Len(call.text) : call.text[p] = "\n"
  /\ \E p \in 1..Len(call.text) : call.text[p] = " "
  /\ ret.headers = <<>>
  /\ ret.rows = <<>>

MatrixDone == pc = "done" /\ call.fn \in {"parseXLSX", "importXlsxFile"}

\* The positions, in the matrix, of the body rows that are present.
PresentBodyRows == { i \in 2..Len(call.json) : ~IsNull(call.json[i]) }

\* C17: on the cell-matrix path an absent body row gives no row of the dataset
\* and a present row gets the empty string for a missing cell, so the dataset
\* has as many rows as the matrix has present body rows.
C17_AbsentRowsSkipped ==
  MatrixDone => Len(ret.rows) = Cardinality(PresentBodyRows)

-----------------------------------------------------------------------------
(* extractKeywordsFromReference applied to bounded datasets.               *)

\* A dataset holds at most MaxExtractRows rows.
MaxExtractRows == 2

ExtractHeaders ==
  { <<<<"A">>, <<"B">>>>, <<<<"2">>, <<"1">>>>, <<<<"B">>, <<"1", "0">>>> }

ExtractCells ==
  { Str(<<"x">>), Str(<<"y">>), Str(<<"z">>), Str(<<" ", "y", " ">>), Str(<<>>), Null }

ExtractDatasets ==
  { [headers |-> h,
     rows |-> [n \in 1..Len(vs) |-> rowFrom(h, vs[n], 1, <<>>)]] :
      h \in ExtractHeaders,
      vs \in SeqsUpTo([1..2 -> ExtractCells], MaxExtractRows) }

ExtractInit ==
  /\ StateInit
  /\ build = AppJs
  /\ call \in { [fn |-> "extractKeywordsFromReference", refData |-> d] :
                  d \in ExtractDatasets \cup { Null } }
  /\ ret = <<>>
  /\ pc = "call"

ExtractNext == ExtractCall

SpecExtract == ExtractInit /\ [][ExtractNext]_vars

-----------------------------------------------------------------------------
(* Claims about extractKeywordsFromReference, checked under SpecExtract.   *)

ExtractDone == pc = "extracted" /\ call.fn = "extractKeywordsFromReference"

\* The cells of the dataset walked in row order and, within a row, in the
\* order of headers.
RECURSIVE CellsInHeaderOrder(_, _)
CellsInHeaderOrder(d, n) ==
  IF n > Len(d.rows) THEN <<>>
  ELSE [j \in 1..Len(d.headers) |-> Get(d.rows[n], d.headers[j])]
       \o CellsInHeaderOrder(d, n + 1)

\* The trimmed string forms of the non-null, non-blank cells, each at its
\* first occurrence.
RECURSIVE FirstSeen(_, _)
FirstSeen(cells, seen) ==
  IF cells = <<>> THEN <<>>
  ELSE LET v == Head(cells)
           t == IF IsNull(v) THEN <<>> ELSE trim(String(v))
       IN  IF t = <<>> \/ t \in seen THEN FirstSeen(Tail(cells), seen)
           ELSE <<t>> \o FirstSeen(Tail(cells), seen \cup {t})

\* C16: no dataset gives []; otherwise the result is the trimmed string forms
\* of the non-null, non-blank cells, without duplicates, in first-seen order,
\* cells walked in row order and within a row in header order, whatever the
\* header names.
C16_RowThenHeaderOrder ==
  ExtractDone =>
    ret = IF IsNull(call.refData) THEN <<>>
          ELSE FirstSeen(CellsInHeaderOrder(call.refData, 1), {})

-----------------------------------------------------------------------------
(* importFile and the file inputs' change listeners (src/app.js), the      *)
(* change handlers of src/unnamed/part_000                                 *)

\* name.toLowerCase().match(/\.([^.]+)$/): what follows the last dot, when
\* something does.
getFileExtension(name) ==
  LET lower == toLowerCase(name)
      dots == { i \in 1..Len(lower) : lower[i] = "." }
  IN  IF dots = {} THEN <<>>
      ELSE LET last == CHOOSE i \in dots : \A j \in dots : j <= i
           IN  SubSeq(lower, last + 1, Len(lower))

ExtCsv == <<"c", "s", "v">>
ExtXlsx == <<"x", "l", "s", "x">>
ExtXls == <<"x", "l", "s">>

\* The result of await importFile(file).  A file is [name, text, sheet]: text
\* is what readAsText gives, sheet is Null when XLSX.read cannot decode the
\* file, else [json |-> the matrix of the first sheet]; readError says that
\* the FileReader ended in onerror.
importFile(file, readError) ==
  LET ext == getFileExtension(file.name)
  IN  IF ext = ExtCsv
      THEN IF readError THEN [ok |-> FALSE]
           ELSE [ok |-> TRUE, dataset |-> parseCSV(file.text)]
      ELSE IF ext = ExtXlsx
      THEN IF readError \/ IsNull(file.sheet) THEN [ok |-> FALSE]
           ELSE [ok |-> TRUE, dataset |-> parseXLSX(file.sheet.json)]
      ELSE [ok |-> FALSE]

\* The data a change handler of src/unnamed/part_000 gets from the file, by
\* importXlsxFile for a workbook (xlsx or xls), by parseCSV for a text.
handlerData(file, readError) ==
  LET ext == getFileExtension(file.name)
  IN  IF ext = ExtXlsx \/ ext = ExtXls
      THEN IF readError \/ IsNull(file.sheet) THEN [ok |-> FALSE]
           ELSE [ok |-> TRUE, dataset |-> importXlsxFile(file.sheet.json)]
      ELSE IF ext = ExtCsv
      THEN IF readError THEN [ok |-> FALSE]
           ELSE [ok |-> TRUE, dataset |-> parseCSV(file.text)]
      ELSE [ok |-> FALSE]

\* What the listener gets once the file read has ended, in the script run.
awaited(file, readError) ==
  IF build = AppJs THEN importFile(file, readError) ELSE handlerData(file, readError)

\* No file read is started: importFile throws at once (src/app.js, which
\* reads csv and xlsx), the handler shows the error and returns
\* (src/unnamed/part_000, which reads csv, xlsx and xls).
unsupported(file) ==
  getFileExtension(file.name) \notin
    (IF build = AppJs THEN { ExtCsv, ExtXlsx } ELSE { ExtCsv, ExtXlsx, ExtXls })

\* updateComparisonIfReady of src/unnamed/part_000: the comparison table is
\* drawn once both the reference and the file to compare are loaded.
updateComparisonIfReady(S) ==
  IF IsNull(S.comparaison.ref) \/ IsNull(S.comparaison.cmp) THEN S
  ELSE renderComparisonTable(S)

\* The try block of each listener after a successful await.
analyseImported(S, dataset) ==
  renderAnalyseTable(
    [S EXCEPT !.analyse = dataset,
              !.selectedColumns = newSet(dataset.headers),
              !.status = "imported"])

refImported(S, dataset) ==
  LET T == [S EXCEPT !.comparaison.ref = dataset,
                     !.comparaison.keywords = extractKeywordsFromReference(dataset),
                     !.status = "imported"]
  IN  IF build = AppJs
      THEN IF ~IsNull(T.comparaison.cmp) THEN renderComparisonTable(T) ELSE T
      ELSE updateComparisonIfReady(T)

cmpImported(S, dataset) ==
  LET T == [S EXCEPT !.comparaison.cmp = dataset,
                     !.selectedColumns = newSet(dataset.headers),
                     !.status = "imported"]
  IN  IF build = AppJs THEN renderComparisonTable(T) ELSE updateComparisonIfReady(T)

imported(S, role, dataset) ==
  IF role = "analyse" THEN analyseImported(S, dataset)
  ELSE IF role = "ref" THEN refImported(S, dataset)
  ELSE cmpImported(S, dataset)

importFailedClearing(S, role) ==
  [S EXCEPT !.status = "error", !.selectedColumns = {}]

\* The catch block of each listener: showError(...).
importFailed(S, role) == [S EXCEPT !.status = "error"]

-----------------------------------------------------------------------------
(* The application: files are selected, read and imported, the mode is     *)
(* switched, columns are toggled, keywords are typed.                      *)

\* The file inputs change at most MaxImports times in a run.
MaxImports == 2

NameA == <<"a", ".", "c", "s", "v">>
NameC == <<"c", ".", "X", "L", "S", "X">>
NameBad == <<"d", ".", "x", "l", "s", "x">>
NameTxt == <<"e", ".", "c", "s", "v", ".", "t", "x", "t">>
NameXls == <<"f", ".", "x", "l", "s">>
NameDup == <<"d", "u", "p", ".", "c", "s", "v">>

Files ==
  { [name |-> NameA, text |-> <<"A", ";", "B", "\n", "x", ";", "y">>, sheet |-> Null],
    [name |-> NameC, text |-> <<>>,
     sheet |-> [json |-> <<Cells(<<Str(<<"C">>)>>), Cells(<<Str(<<"z">>)>>)>>]],
    [name |-> NameBad, text |-> <<>>, sheet |-> Null],
    [name |-> NameTxt, text |-> <<"A", ";", "B">>, sheet |-> Null],
    [name |-> NameXls, text |-> <<>>,
     sheet |-> [json |-> <<Cells(<<Str(<<"C">>)>>), Cells(<<Str(<<"z">>)>>)>>]],
    [name |-> NameDup,
     text |-> <<"x", ";", "x", ";", "y", "\n", "1", ";", "2", ";", "3">>, sheet |-> Null] }

EditTexts == { <<>>, <<"x">> }

Roles == { "analyse", "ref", "cmp" }

\* toggleMode shows the file input of the analysis target in analysis mode
\* and those of the reference and of the comparison target in comparison mode.
inputShown(role) == (role = "analyse") <=> (mode = "analyse")

Init ==
  /\ StateInit
  /\ build \in Builds
  /\ call = [fn |-> "none"]
  /\ ret = <<>>
  /\ pc = "call"

\* No file: getFirstFileFromEvent returns null.
NoFile == Null

\* A file input's change event.  With no file the listener returns; with a
\* file the status is shown and the file read is started, an unsupported
\* extension being rejected before any read.
FileChange ==
  \E role \in Roles, file \in Files \cup { NoFile } :
    /\ inputShown(role)
    /\ imports < MaxImports
    /\ imports' = imports + 1
    /\ IF IsNull(file)
       THEN /\ Becomes(Cur)
            /\ pending' = pending
            /\ lastSelected' = lastSelected
            /\ call' = [fn |-> "fileChange", failed |-> FALSE]
       ELSE IF unsupported(file)
       THEN /\ Becomes(importFailed([Cur EXCEPT !.status = "importing"], role))
            /\ pending' = pending
            /\ lastSelected' = [lastSelected EXCEPT ![role] = [file |-> file, fate |-> "failed"]]
            /\ call' = [fn |-> "fileChange", failed |-> TRUE]
       ELSE /\ Becomes([Cur EXCEPT !.status = "importing"])
            /\ pending' = Append(pending, [role |-> role, file |-> file])
            /\ lastSelected' = [lastSelected EXCEPT ![role] = [file |-> file, fate |-> "reading"]]
            /\ call' = [fn |-> "fileChange", failed |-> FALSE]
    /\ ret' = <<>>
    /\ pc' = "call"

\* Pending import i is the one of the file selected last for its role: no
\* later import of the role is pending and that file is still being read.
isLastSelected(i) ==
  /\ \A j \in (i + 1)..Len(pending) : pending[j].role # pending[i].role
  /\ lastSelected[pending[i].role].fate = "reading"

\* The file read of one pending import ends, in any order: the listener
\* resumes after its await, in the try block or in the catch block.
ImportSettled ==
  \E i \in 1..Len(pending), readError \in BOOLEAN :
    LET role == pending[i].role
        result == awaited(pending[i].file, readError)
    IN  /\ pending' = SubSeq(pending, 1, i - 1) \o SubSeq(pending, i + 1, Len(pending))
        /\ IF result.ok
           THEN Becomes(imported(Cur, role, result.dataset))
           ELSE Becomes(importFailed(Cur, role))
        /\ lastSelected' =
             IF isLastSelected(i)
             THEN [lastSelected EXCEPT
                     ![role].fate = IF result.ok THEN "imported" ELSE "failed"]
             ELSE lastSelected
        /\ call' = [fn |-> "importSettled", role |-> role, failed |-> ~result.ok]
        /\ ret' = <<>>
        /\ pc' = "call"
        /\ UNCHANGED imports

\* A column checkbox's change event: the click inverts the box, and the
\* listener passes the header the box was drawn for and the new state of the
\* box.
ColumnToggle ==
  \E i \in 1..Len(thead) :
    LET header == thead[i]
        checked == ~boxes[i]
    IN  /\ Becomes(updateSelectedColumns([Cur EXCEPT !.boxes[i] = checked],
                                          header, checked))
        /\ call' = [fn |-> "updateSelectedColumns", header |-> header, checked |-> checked]
        /\ ret' = <<>>
        /\ pc' = "call"
        /\ UNCHANGED <<pending, imports, lastSelected>>

\* The case-sensitive checkbox's change event.
CaseSensitiveChange ==
  /\ Becomes(refreshTable([Cur EXCEPT !.caseSensitive = ~caseSensitive]))
  /\ call' = [fn |-> "caseSensitiveChange", checked |-> ~caseSensitive]
  /\ ret' = <<>>
  /\ pc' = "call"
  /\ UNCHANGED <<pending, imports, lastSelected>>

KeywordEdit == KeywordInputFrom(EditTexts)

Next ==
  \/ FileChange
  \/ ImportSettled
  \/ ModeChange
  \/ ColumnToggle
  \/ CaseSensitiveChange
  \/ KeywordEdit

Spec == Init /\ [][Next]_vars

-----------------------------------------------------------------------------
(* Claims about the application, checked under Spec.                       *)

\* The dataset of the current mode is loaded.
CurrentLoaded ==
  IF mode = "analyse" THEN ~IsNull(analyse) ELSE ~IsNull(comparaison.cmp)

\* The headers of the dataset of the current mode, once it is loaded.
CurrentDatasetHeaders ==
  IF mode = "analyse" THEN analyse.headers ELSE comparaison.cmp.headers

HeaderSet(headers) == { headers[i] : i \in 1..Len(headers) }

\* C18: in every reachable state the selected columns are headers of the
\* dataset of the current mode, whenever that dataset is loaded.
C18_SelectedWithinCurrentHeaders ==
  CurrentLoaded => selectedColumns \subseteq HeaderSet(CurrentDatasetHeaders)

\* A step is a call of updateSelectedColumns.
ToggleStep == call'.fn = "updateSelectedColumns"

\* The selected columns right after the add or delete of that call.
Toggled ==
  IF call'.checked THEN selectedColumns \cup { call'.header }
  ELSE selectedColumns \ { call'.header }

\* C19: after a call of updateSelectedColumns made while the current mode has
\* a loaded dataset with at least one header, some column is selected, and if
\* the toggle emptied the set, the set is all the current headers.
C19_ReactivatesAllColumns ==
  [][ (ToggleStep /\ CurrentLoaded /\ Len(CurrentDatasetHeaders) >= 1) =>
        /\ selectedColumns' # {}
        /\ Toggled = {} => selectedColumns' = HeaderSet(CurrentDatasetHeaders) ]_vars

\* C19 witness: the last of two selected columns has just been unchecked and
\* both columns of the current dataset are selected again.
C19_Witness ==
  /\ call.fn = "updateSelectedColumns"
  /\ ~call.checked
  /\ CurrentLoaded
  /\ Len(CurrentDatasetHeaders) = 2
  /\ call.header \in selectedColumns
  /\ selectedColumns = HeaderSet(CurrentDatasetHeaders)
  /\ status = "reset"

\* A step is the end of an import that failed: the file could not be read or
\* decoded, or its extension is not supported.
FailedImportStep == "failed" \in DOMAIN call' /\ call'.failed

\* C20: a failed import leaves the datasets of the three roles, the reference
\* keywords, the selected columns and the filter keywords as they were, and
\* shows an error status.
C20_FailedImportKeepsData ==
  [][ FailedImportStep =>
        /\ analyse' = analyse
        /\ comparaison' = comparaison
        /\ selectedColumns' = selectedColumns
        /\ filters' = filters
        /\ status' = "error" ]_vars

\* C20 witness: with a dataset loaded and columns selected, the read of a
\* second file has just failed and the error status is shown.
C20_Witness ==
  /\ call.fn = "importSettled"
  /\ call.failed
  /\ status = "error"
  /\ ~IsNull(analyse)
  /\ selectedColumns # {}
  /\ pending = <<>>

\* The dataset role r holds.
RoleDataset(r) ==
  IF r = "analyse" THEN analyse
  ELSE IF r = "ref" THEN comparaison.ref
  ELSE comparaison.cmp

\* No import of role r is still being read.
NonePending(r) == \A i \in 1..Len(pending) : pending[i].role # r

\* The import of the file selected last for role r has completed successfully
\* and every other import of the role has completed too.
LastSelectedImported(r) ==
  /\ ~IsNull(lastSelected[r])
  /\ lastSelected[r].fate = "imported"
  /\ NonePending(r)

\* The dataset a successful import of file gives.
DatasetOf(file) == awaited(file, FALSE).dataset

\* C21: once the imports of a role have completed, that of the file selected
\* last successfully, the role holds the dataset of that file, whatever the
\* order in which overlapping reads ended, and the reference keywords are
\* those extracted from that dataset.
C21_LastSelectedWins ==
  \A r \in Roles :
    LastSelectedImported(r) =>
      /\ RoleDataset(r) = DatasetOf(lastSelected[r].file)
      /\ r = "ref" =>
           comparaison.keywords
             = extractKeywordsFromReference(DatasetOf(lastSelected[r].file))

\* A reference import has just completed successfully in comparison mode
\* while a comparison target is loaded.
ReferenceImportedInComparison ==
  /\ call.fn = "importSettled"
  /\ call.role = "ref"
  /\ ~call.failed
  /\ mode = "comparaison"
  /\ ~IsNull(comparaison.cmp)

\* C22: after a reference import completes successfully in comparison mode
\* while a comparison target is loaded, the filter keywords are the keywords
\* of the new reference, whatever they were before.
C22_FilteredWithNewReference ==
  ReferenceImportedInComparison => filters.keywords = comparaison.keywords

=============================================================================
